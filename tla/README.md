# r-boot, specified

TLA+ modules of r-boot, its installer and its command-line helper, the TLC
configurations that check them on small instances, and TLAPS proofs of the
results that should hold for every instance. Paths are relative to the
repository; `PROJECT.json` maps every definition to the lines it stands for.

## The system

r-boot is a UEFI boot loader for NixOS. Three Rust programs and one shell
script share an EFI system partition (ESP):

| Program | Runs | Reads | Writes |
|---|---|---|---|
| `r-boot` (`crates/r-boot`) | in the firmware, alone | `boot/r-boot.toml`, the files of an entry, `EFI/BOOT/db.der` | settings in `r-boot.toml`, the variables db, KEK, PK, OsIndications |
| `r-boot-conf-builder` | in the system, on `nixos-rebuild` | the generations' links, the Nix store | `boot/nixos/*`, `r-boot.toml`, `BOOTX64.EFI`, a boot entry |
| `r-boot-cli` | in the system, any time | `r-boot.toml`, `boot/nixos`, the signing key | `r-boot.toml`, `boot/nixos` (purge), the signing key |
| activation script (`nix/module.nix`) | around the installer | the signing key | `db.der`, then the installer's files |

Nothing of this takes a lock, and everything that survives a step is on a FAT
file system or in firmware variables. So the behaviours that are hard to test
are orders of steps: a run cut off between two files, two programs between
each other's load and store, a key pressed while the timer has fired, a file
one program writes and three others parse each in its own way.

### Components, their state and what makes them correct

* **Installer** (`r-boot-conf-builder/src/{main,menu,efi}.rs`). State: the set
  of files copied, the text of the menu; on disk the boot files, temporary
  files, `r-boot.toml`, the binary. Copies, renames, prunes, installs, in this
  order, with an error return after each call. Correct if every listed entry
  can be booted at any moment, and a completed run leaves nothing behind.
* **Boot menu** (`r-boot/src/menu.rs`). State: selection, countdown, page, the
  configuration screen's choices; a keyboard event and a timer event that the
  firmware signals. It draws by difference. Correct if the display shows the
  state, and what is booted is what the display marks.
* **Configuration file** (parsers and writers in `r-boot/src/menu.rs`,
  `r-boot-cli/src/config.rs`, `r-boot-conf-builder/src/menu.rs`). Correct if a
  change changes what it says in the eyes of every reader.
* **Boot flow** (`r-boot/src/main.rs`, `menu.rs`, `spinner.rs`). State: fast
  boot, the spinner's frame and position, the files read so far. Correct if
  the entry chosen gets the machine with all of its files, a one-shot fast
  boot happens once, and a save never loses entries.
* **Configuration commands** (`r-boot-cli/src/main.rs`). Load, edit, rename,
  purge. Correct if an edit survives and no entry loses its files.
* **Secure boot** (`r-boot-cli/src/sign_key.rs`, `nix/module.nix`,
  `r-boot/src/secureboot.rs`). State: key and certificate, `db.der`, the
  binary's signer, db, KEK, PK. Correct if the variables end up one
  certificate, and that of the installed binary.
* **Limine protocol** (`limine.rs`), **page tables** (`paging.rs`), **ELF
  loader** (`elf.rs`), driven by `boot_limine`. State: pages allocated, the
  kernel's segments in them, the tables. Correct if the kernel finds its words,
  its answers, all memory and its modules where it was linked to look, and is
  told the truth about which memory is in use.
* **Linux handover** (`linux.rs`). State: the image, `boot_params`, initrd and
  command line in memory. Correct if `boot_params` leads to the others.
* **Chainloading** (`chainload.rs`). State: the list of bootloaders found, the
  row marked. Correct if what is started is what is marked, and never r-boot.
* **Console** (`console.rs`). State: working directory, line. Correct if Tab
  and Enter read a line the same way.
* **Status** (`r-boot-cli/src/status.rs`). No state; reads two files that
  others replace. Correct if what it says is so of the files it read.
* **Logo and splash** (`bgrt.rs`, `splash.rs`), argument parsing, packaging:
  not modelled, see the end.

The components meet in the ESP's files (installer, commands, menu, boot
flow), in calls (`main.rs` calls the menu, the spinner and one of two
handovers; the menu calls console, chainloader and enrolment), and in the
firmware's events and variables.

## Modules

Every run below is one `.cfg` with the same name in CamelCase; run times are on
two cores. An `MC` module holds the constants of its runs.

### ConfBuilder, BuilderOnEsp: one run of the installer

`profiles` are the links in `/nix/var/nix/profiles`; `nixos`, `tmps`, `toml`,
`binary`, `registered` are the disk and NVRAM; `pc`, `current`, `part`, `todo`,
`text`, `copied` the process, named as in the code. One action is one file
operation; `Abort` ends a run between any two. Links change under a run. A copy
goes to the temporary name first, so a file cut short never bears a boot
file's name.

* `builder` checks `EntriesBootable` (each listed entry's kernel and initrd
  are complete files of its own system), `CompletedRun` (exactly the needed
  files, no temporary file, a whole binary), `MenuOrder` (the default first,
  then generations, newest first, no more than the limit), `RunEnds`, and
  `RebuildsTheEsp`, the refinement of `EspSharing` below, in 2.5 minutes.
  Three systems, two of which share a kernel and one of which has no initrd,
  and two generations, are enough for a file that is shared, one that becomes
  unneeded, and an entry that is skipped. Fairness: `WF(Run)`, as a running
  process is scheduled; `RunEnds` allows for a run that is stopped.
`BuilderOnEsp` maps the installer onto `EspSharing`'s rebuild: the plan is the
menu written so far with the entry add_entry is copying, the shared file is
`r-boot.toml` as entries with their files, and the header counts as a setting.
The copy that `EspSharing` does in one step is the rename of a finished
temporary file; creating and cutting temporary files, the binary, the NVRAM
entry and the links are steps of no rebuild.

Three things the model shows or leaves out. The generations listed are not all
older ones, as a comment (`main.rs:78`) and the repository's `README.md:126` have it:
`list_generations` takes the current system's link too, so that system can be in
the menu twice and counts against the limit; `MenuOrder` is about the list as it
is. `Abort` takes a file whose rename was done as complete: the code never syncs
(`menu.rs:22`, `main.rs:64`), so after a power cut on FAT such a file could be
short. And sizes are left out, see the end.

### BootMenu, BootChoice: the menu

`BootChoice` is the abstract promise: some entry is marked, one may be
booted, and it is the one marked. `BootMenu` has the event loop of
`Menu::select` and the configuration screen: the keys, the two events and
their signals (a signal stays until it is consumed, and both can be up), the
timer that is armed and closed, and the display as rows, each with what was
last drawn there.

* `menu` (105 s) has three entries on pages of two, so that the last page is
  short and every key crosses a page boundary, and one or two seconds; the last
  entry is another loader's and has the id of the first. The display
  equals a full redraw after every step, on the menu and on the
  configuration screen; a countdown has its timer and ends when it should;
  what boots is what is marked (the refinement of `BootChoice`).
  `CountdownNotEarly` allows for one second: a signal of the cancelled
  timer can still be there when the countdown starts again.
* `CountdownLeftAlone`: what a countdown boots was selected when it was started
  and no key was pressed since. The history variable `offered` is that entry
  until a key is signalled.
* `MemoryIsSaved`: a save writes the image chosen to every block with the
  selected id, whichever loader's entry was selected, and to one entry in
  memory; so a block's image is that of some entry with its id. A
  save can fail: then the file is as it was, or not whole, and r-boot stops.
* Liveness in the same run: the default boots when nobody touches the
  keyboard, and each key is answered. Fairness: an armed timer fires, its
  signal is handled, a key that is up is handled; the loop has no other way to
  go on. Nobody has to press a key.
* A menu that has booted stops: deadlock is not checked.

Two things the model shows that no run lists: a countdown boots the entry that
is selected, not the default, if saving on the configuration screen starts it
again after the selection moved; and the image chosen for an entry without an
id, or for another loader's entry whose id has no block, is used but never saved
(hence `Identified` in `MemoryIsSaved`).

### BootToml, ConfigFile: the configuration file

`BootToml` has what each parser and each writer does to the lines of a file:
headers and blocks of `[key, value]` lines, with quotes, comments and numbers
only as far as readers differ about them. `ConfigFile` lets the menu, the
one-shot fast boot and `r-boot-cli` edit a file by turns; `Lives` says which
files there are and how often each is edited.

* `config` (45 s) edits messy files once: repeated, invalid and missing
  settings, entries without id, title or kernel, unknown kinds; and tidy ones,
  as the tools write them, twice. Two header lines make the first of a key and
  the last of a key differ, which is what the readers could disagree on; three
  entries give `remove` an entry before and behind it. The menu's edits are
  exact whatever the file; those of `r-boot-cli` in files that are `Generated`
  (no setting twice, an id, one kernel and no unknown line in every entry). A
  default may also be a title or a pattern, so `set-default` is held to its id
  only if that is neither (`NothingButId`).
* `config_kernel` shows the key that `r-boot-cli` does not know.

### Spinner, Boots: from power-on to the handover, again and again

`Boots` is `boot_kernel` with every early return, for machines that are
switched on up to `MaxBoots` times; in between the system may replace the
configuration and the boot files. A power cut can come at every step. A write
can be refused, or delete the old file and then leave none, a part of the new
one (`WritePart`: some settings, some entries, the last of them cut short, its
file name turned into `CutName`) or a character cut in two. A save from the menu
that fails ends r-boot; the one that takes `next-boot` back is not looked at.
`Spinner` has modes, frame index and whether a ring is on the screen: none, one
drawn since the last erasure, or one left because the firmware did not erase it.
`OtherEntries` stands for the entries `Menu::load` adds for other loaders it
finds.

* `boots` (90 s) has three power-ons: one to ask for a fast boot, one to make
  it, one to make it wrongly again; two entries with one and three initrds, or
  none, so that the fixed layouts are used, and four sets of files with some
  of either missing. `NextBootOnce` counts the fast boots of entries.
  `FailureShown` excepts a ring r-boot tried to erase in vain. `BootEnds` assumes
  `WF(Running)`: the code loops nowhere in `boot_kernel` but over the files of an
  entry. What the user does at the menu is not fair.
* `boots_layout`, the same instance, refutes `FastOnce`, that `next-boot` makes
  one fast boot whatever is booted: with `next-boot` in a file without entries
  every boot is a fast one, because only the path through an entry takes the
  mode back (`src/main.rs:70`). `r-boot-cli set-fastboot` writes such a file, and
  so does `remove` when it takes the last entry.

One exception, real and named in the property: saving over a file that is not
UTF-8 writes an empty one, because a failed read counts as no file
(`src/menu.rs:844`), hence `installed.text = "ok"` in `EntriesKept`.

### EspSharing: rebuilds, commands and the menu on one ESP

The installer coarsened to planning an entry, copies, rename and pruning, on an
ESP that starts without entries; every `r-boot-cli` process as load, rename,
purge, or load and scan; the menu's save at a restart as one step, of
which `Boots` has the parts. Nothing takes a lock, so any of these steps may
come between any two others, and each program may stop between its own; NixOS
itself runs one rebuild at a time. Four history variables say what has happened:
`expected`, the last generated file with all edits made since; `stale`, that a
command has saved a copy loaded before another change; `since`, what became of
the file a command has loaded; `purged`, the files that `remove --purge` deleted
although an entry or the rebuild needs them.

* `esp` (155 s): two commands and the installer, two ids, and two kernels that
  share an initrd (`Buildable`), so entries share files and systems change
  theirs. Any two of the programs run at once (the constraint `TwoAtOnce`), each
  stopped anywhere; commands are alike, and so are the kernels (`Alike`).
  Entries find their files unless `remove --purge` took them or an outdated copy
  is on the ESP; an edit survives until the next rebuild unless a command saves
  what it had loaded before; `list-files` does not name a file an entry needs
  unless the file was replaced under it. Two programs are enough for one to
  meet what another left behind or does meanwhile.
* `esp_lost` refutes that changes persist, as `r-boot-cli` says they do: of two
  commands that load, edit and rename, the later rename undoes the other's edit.

The exceptions are what the code allows and no run lists separately:
`remove --purge` deletes whatever the removed entry names, without a look at the
other entries (`r-boot-cli/src/main.rs:185`), so a kernel that generations share
is gone for all of them; and a command that loaded before a rebuild and saves
after it brings back entries whose files the rebuild has pruned.

### SecureBoot: from the signing key to PK

`sign-key` writes key and certificate in two steps; the activation script
signs, writes `db.der`, installs; the menu writes db, KEK, PK. The firmware
takes or rejects an update while it has no PK and starts only what db
verifies once it has one. A pair of keys stands for its certificate and what
is signed with it; `sbsign` refusing a key that is not the certificate's is
an assumption about an external program. Two history variables: `rekeyed`,
whether `sign-key` touched its files while the activation ran, and `signed`,
the pair of the last activation that signed, ended well and was not
re-keyed, until the next one begins.

* In the run `tools`: everything may fail, be cut off and interleave. Three
  pairs let the enrolled, the installed and the newest differ. `EnrolledTogether`
  and `SuccessTrue` hold always; `CertMatchesBinary` and `EnrolsSigner` after an
  activation that counts as `signed`.
* `secure_interrupted` shows what happens after one that does not: `db.der`
  is replaced first, so an activation that ends early leaves the certificate
  of a binary that was never installed. The same property fails when signing
  is switched off and `db.der` stays, and when `sign-key create --force` falls
  between `sbsign` and `openssl`.

### Status: `r-boot-cli status` beside them

Two steps, the certificate and then the binary, while the programs of
`SecureBoot` go on. A signed file is its lengths: headers, the table, the
PKCS#7 in it, the padding; a file being copied is cut off anywhere. Also in
`tools`: `StatusTrue` says that each report is true of a file that was
there, with signatures of one byte, one under and exactly a multiple of eight.

### Machine, Paging, LimineKernel: from an ELF file to the jump

`Machine` is physical memory, word by word, and the pages the firmware may
give away; an allocation takes any of them. `Paging` is the four-level tables
in that memory, their entries written as `paging.rs` writes them, and `Walk`,
the processor's way through them, as the reference. `LimineKernel` is
`boot_limine`: headers checked, segments copied and zero-filled, modules read,
requests answered in the copies, windows and segments mapped, the kernel
entered, with an early return at every check and every allocation.

Sizes are scaled, relations kept: pages of three words, so tables of three
entries; a "gigabyte" is nine pages, 4 GiB two of them. A kernel's file is a
sequence of words that are a tag, a half of a request's identifier, or its own
content; identifiers that take two words in the code take one, so the scan's
end is one word closer. What the model keeps of that: a base revision at the
very end of the file is not seen, in the code as here.

### LimineMap: the memory map a Limine kernel is given

The storage is sized from one map, allocations split the map further, and
`populate` converts the final one after boot services are gone, splitting it
where the kernel's, the modules' and the framebuffer's ranges begin and end,
and dropping what does not fit. The firmware's allocations are external.

### LinuxHandover: the same last step for Linux

The blocks are allocated in the code's order (image by the firmware, then
`boot_params`, initrd and command line), each anywhere its limit allows; the
fields of `boot_params` are 32 bits wide, `u32` modulo `FourGiB`; masks of a
framebuffer become positions and sizes.

### Handover: the three together

* `handover` (2 min): machines that end inside the second gigabyte, with and
  without a framebuffer, and ones that end behind four, with a framebuffer in the
  last gigabyte begun or behind it; single pages from either end of free memory;
  kernels with one and two segments that end in a page, over one, over a table,
  with nothing but zeroes, beside the window's tables; requests in the file's
  part, across its end, unknown and repeated; up to two modules; and nine kernels
  that must be refused. `KernelSees` and `WindowsWhole` read memory through
  `Walk` when the kernel is entered; `OthersUntouched` says that nothing outside
  r-boot's own pages was written. `LinuxSees` follows `boot_params` on machines
  below 4 GiB and on ones with room on both sides of it: each block is whole
  where it was put, `boot_params` leads to those that begin below 4 GiB, and to
  the framebuffer wherever that is.
* In the same run, `LimineMap` has sixteen addresses, pages of two, three
  layouts (with and without a gap, and one that ends where addresses do and
  sums saturate), every placement of up to two ranges that do not overlap, two
  spare entries and two allocations, which can use up more than is spare where
  one cannot. `MapExact` is conditional on no more descriptors being added than
  there are spare entries (32 in the code): nothing in the code enforces that.
  `MapSafe` holds without it, also for a map cut short.
* `linux_high`, on those machines, refutes that `boot_params` leads to every
  block (`LinuxFindsAll`): initrd and command line may be allocated above 4 GiB,
  and their addresses lose their upper half on the way into `boot_params`.
* A kernel that was entered does not come back: deadlock is not checked.

Two conditions on the kernels that no code enforces: no segment is linked
into the window of all memory (`Clear`; `child_table` takes a huge page for a
table there), and none goes over the last address (`AddressAssumption`;
`map_range` would go on at address 0). Of a framebuffer behind the last gigabyte
begun `WindowsWhole` says nothing: the answer has an address that nothing maps.
Another thing
follows from the code and is left out: the answer to the executable address
request pairs the lowest physical with the lowest virtual address, which is a
true pair only if the segments were allocated in the order of their addresses;
each segment has an allocation of its own.

### Console, Chainload, Tools: what `t`, `b` and `e` open

`Console` is the line editor with completion and the two ways a path is read:
`complete` looks at the line as typed, `run` at its words. A directory other
than the root lists `.` and `..` as well, as FAT keeps them, and completion
counts them. `Chainload` is the scan of the volumes the firmware opens, the list
and its rows, and the start of an image, while volumes come and go. `Tools` runs
one of them, or the enrolment with the programs around it (`SecureBoot`,
`Status`), as the menu does. `ls`, `lsblk`, `pwd` and `help` print and change
nothing.

* `tools` (90 s): lines of up to five typed characters out of seven, and what
  completion makes of them, in a tree where names are prefixes of each other:
  `TabHelps` compares what the line can come to denote before and after Tab,
  as Enter reads it. Three volumes, four ways bootloaders are
  spread over them, and three changes of a volume under the list:
  `OthersStarted` says that r-boot itself is never offered, that one row is
  marked, and that what is started is the bootloader of the marked row, from its
  own volume, which is there at that time and has it. Bootloaders on different
  volumes have the same title. Then the properties of secure boot and `status`,
  above; the three are independent, so their states add up.

## Proofs

`tlapm` proves, for every value of the constants that satisfies the
assumptions named in the modules:

* `ConfBuilderProofs`: type correctness, `AlwaysBootable`
  (`[]EntriesBootable`), `CompletedRunsAreClean`, `MenuIsOrdered` and
  `InstallerRebuilds`. `EntriesBootable` is not inductive: an entry is added while its files have been copied but before it
  is published, so `IInv` speaks of the text in memory too, and a file found
  in place is the right one only because finished files bear their source's
  name (`CleanNameAssumption`, the injectivity of the Nix store's names).
  `MenuOrder` needs `OrderInv`: the generations in the text, the one worked on
  and those still listed go downwards, and together are no more than were
  listed. `NewestLimited` shows, for any number of links, that
  `list_generations` returns no more than its limit; the instance has as many
  generations as the limit, so this is where the limit is put to the test.
  `InstallerRebuilds` is `Spec => Esp!Spec`, one lemma per action of the
  rebuild (`Begins`, `Plans`, `Counts`, `Writes`, `Prunes`, `Finishes`,
  `Stopped`) and `Stutters` for the rest. It needs both invariants: `OrderInv`
  makes the id of a new entry fresh (`FreshId`), so that a plan is a function
  of ids, and `IInv` makes what `copied` counts a subset of the plan and of the
  directory, so that the rename finds everything its entries need.
* `BootMenuProofs`: `MenuTypes`, `DisplayIsTruthful`, `CountdownIsTimed`,
  `CountdownIsNotEarly`, `MemoryAgreesWithFile`, `CountdownIsLeftAlone`, and the
  refinement of `BootChoice` (`BootsTheMarkedEntry`), for any number of
  entries, any size of pages and any timeout. Assumed is that the key for the
  next spinner mode goes round all of them (`ModesAssumption`) and that the
  entries start with images the screen knows (`ImagesAssumption`). The invariant: what is on the screen is a full redraw
  of the present selection with some status line; no countdown runs on the
  configuration screen; and the seconds waited, together with the one a stale
  signal may stand for, make up for what the countdown has lost.
* `BootsProofs`: type correctness, `FastbootsAreQuiet`, `FastBootIsMadeOnce`,
  `EntriesSurvive`, `TheChosenIsHandedOver` and `FailuresAreShown`, for any
  contents of the file and any beginning of it that a write leaves. The invariant
  `OnceOK` behind `FastBootIsMadeOnce` ties the fast boots made of entries to the
  file on disk: after one was made, the file does not ask again. `HandedOver`
  follows from what has been read being, at each step, the beginning of the
  target's files, the rest being those still to be read; `FailureShown` from a
  ring drawn and not yet erased being one whose place the present spinner knows.
* `EspSharingProofs`: `TypeCorrectness`, `EntriesStayBootable`,
  `FreshEditsSurvive` and `ListsStayRight`, for any number of processes in any
  interleaving. The invariant says that a command between load and rename holds
  the file on the ESP with its own edit applied, or is known to be outdated; that
  a rebuild's copies are there or known to be purged, all of them before its
  rename; and that while it prunes no entry needs another file.
* `SecureBootProofs`: type correctness, `VariablesEnrolledTogether`,
  `SuccessIsTrue`, `CertMatchesInstalled` and `EnrolmentKeepsBooting`.
  `SecureInv` follows the certificate from the file it is read from through
  `db.der` and the three variables, and the pair `sbsign` used through the two
  files the activation writes. `StatusChangesNothing`: with `status` running
  beside them the programs do what they did, so all of this holds of them
  still; `StatusIsTrue`, for signatures of every length: arithmetic on the
  padding shows that the PKCS#7 taken is the one signed.
* `HandoverProofs`, of `Handover`'s own specification. Linux:
  `LinuxInvariance`, for every size of pages, memory, kernel, initrd and
  command line: each block is in pages of its own, whole, as it was written; a
  later block takes pages still free and so leaves it so. `LinuxSeesIt` needs only
  that masks are runs of bits, as UEFI has them (`ContiguousMasks`).
  The memory map: `MapInvariance`, `MapIsSafe` (`[]MapSafe`) and
  `MapIsExact` (`[]MapExact`), for every map, every sequence of ranges, every allocation made after the storage was
  sized and every number of entries that fit. Assumed is that the firmware's
  descriptors do not overlap (`DescriptorsApart`). The invariant: an entry is
  a piece of one descriptor already converted, the present one only up to the
  cursor; entries are apart because descriptors are, also after an allocation
  has split one; and a piece ends before the first range behind its start, so
  one that is offered is in no range. `MapIsExact` assumes as well that
  ranges of different kinds, the kernel's and the framebuffer's, share no
  address (`RangesApart`). Its invariant counts: every entry ends at a cut, the
  end of a descriptor or the start or end of a range; entries end at different
  cuts, and the next piece at one more; there are no more cuts than descriptors
  and twice the ranges, so the pigeonhole principle leaves an entry for it as
  long as the spare ones have made up for the descriptors added. Then a
  descriptor is only left when all of it is covered.
  Limine kernels: `KernelInvariance`, for tables of every size, any firmware's
  choice of pages, any kernel, and an error at any step. `KernelInv` has two
  parts. `Claims`: segments and modules have pages of their own, apart from
  each other, from what is free and from what was in use; so what is written
  later leaves them as they are, and `OthersAreUntouched` (`[]OthersUntouched`,
  for Linux too) follows without any assumption. `TablesInv`: there is a
  labelling of the tables by their level and by the number that all their pages
  begin with, such that a word of a table leads nowhere or to the table with the
  label it stands for. `child_table` and the two windows extend such a
  labelling; and as no two words can lead to one table, an entry written for
  one page or gigabyte changes where no other leads (`LabelsDiffer`,
  `LeafStays`, `WindowStays`). `KernelIsSeen` is `[](Linked => KernelSees)`:
  segments share no page, and what is answered lies in one segment. The code
  checks neither, linkers see to both, and all kernels entered in `handover`
  are so; without it the later segment's pages replace the earlier's.
  `WindowsAreWhole` is `[]WindowsWhole` for any memory, framebuffer and kernel.
  Both use `AddressAssumption`: the windows are of whole gigabytes, four at least,
  the one of all memory ends before addresses do, and so does each segment.
* `ConfigFileProofs`: all five properties of `config`, for files with any
  number of lines and entries and any history of edits. The readers look at a
  file only through `With`, the lines with some key, or at the first or last of
  them; so each writer gets a lemma about which `With` it leaves as it is, and
  each reader one about which it depends on. Both rest on how `With` and
  `FlattenSeq` go through concatenation, and that on induction over the
  length, as the well-foundedness of the numbers applied to a set. `Edited`
  has the five edits as relations between one file and the next; `AgreeInv`,
  that a file last saved by the menu or `r-boot-cli` has spinner and logo at most
  once and the logo without quotes, is the invariant behind `ReadersAgree`.
  `CliSetIsExact` and `CliDefaultAndRemoveIsExact` are about `Generated` files.
* `ChainloadProofs`: `OthersAreStarted`, for any volumes, whatever is on them,
  and whichever change under the list. The list the rows stand for was made by
  one scan, and each of its entries by one loop over the volume's paths; the
  row marked and the entry started have one index in both, and an image is read
  from the volume of its entry.

The type invariants of `ConfBuilder`, `BootMenu`, `Boots`, `EspSharing` and
`SecureBoot` are proved for every instance and no run repeats them.

Only model-checked: everything temporal beyond safety (`RunEnds`,
`UnattendedBoot`, `KeysAnswered`, `BootEnds`), as TLAPS does not do fairness
with ENABLED; and the console, whose completion is recursive over what a
directory holds.

## Plan

Every component with behaviour of its own is modelled. What is left, in this
order:

1. Sizes of files and of the ESP in `ConfBuilder`: a full ESP never reaches
   the pruning that would make room.

The suite is kept at a dozen runs: a new module shares a run with one it is
composed with, or takes the place of a shallower run.

## Not modelled, and why

* Pixels, fonts, the BMP decoder and the splash art (`bgrt.rs`, `splash.rs`):
  data without control the properties would tell apart.
* Characters of a configuration line (where a `#` starts a comment, quotes
  inside values): `BootToml` starts from lines already split.
* Sizes of files and of the ESP: a copy fails or succeeds. The case of an ESP
  too full for a rebuild ever to reach its pruning is listed as a hazard.
* `db.der` cut short: `openssl` truncates it in place, but it is one small write.
  `r-boot.toml.tmp.*` cut short is read by nobody.
* Data still in the system's cache at a power cut, for want of a sync.
* Argument parsing, shell completions, the Nix packages and the QEMU scripts.

## Running

```sh
cd tla
tlc -workers 2 -config MCBoots.cfg MCBoots.tla
tlapm BootsProofs.tla
```

Every configuration ends within three minutes on two cores. Those whose
run is listed as a violation end in a counterexample; the findings in
`PROJECT.json` quote what each of them refutes.
