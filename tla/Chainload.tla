----------------------------- MODULE Chainload ------------------------------
(***************************************************************************)
(* chainload::run: other bootloaders on the attached volumes are looked    *)
(* for, listed, and the chosen one read and started.  Volumes come and go  *)
(* while the list is on the display.  r-boot holds the file system of its  *)
(* own volume open, exclusively, all the time.                             *)
(***************************************************************************)
EXTENDS Integers, SequencesExt

CONSTANTS
    Known,      \* KNOWN: paths of bootloaders, in order
    Fallback,   \* the one of them that is r-boot's own place, \EFI\BOOT\BOOTX64.EFI
    Titles,     \* path -> title
    Volumes,    \* all there may be, in the firmware's order
    Own,        \* the volume r-boot was started from
    Contents,   \* what may be on the others: volume -> set of paths
    MaxPlugs    \* bound on how often a volume comes or goes

ASSUME VolumesAssumption ==
    /\ Known \in Seq(DOMAIN Titles) /\ Fallback \in ToSet(Known)
    /\ \A c \in Contents : Volumes \in Seq(DOMAIN c)
    /\ Own \in ToSet(Volumes)

VARIABLES
    content,     \* volume -> paths there are
    attached,    \* volumes
    plugs,       \* how often that changed
    own_device,  \* what the firmware said r-boot came from: {Own}, or {} without an answer
    screen,      \* "menu", "list", "notice", then "started" or "error"
    found,       \* Bootloaders: [device, path]
    selected,
    rows,        \* the list on the display: [marked, title]
    started      \* the bootloader that was started, or {}

chainload == <<content, attached, plugs, own_device, screen, found, selected, rows, started>>

ChainloadInit ==
    /\ \E c \in Contents : content = [c EXCEPT ![Own] = @ \cup {Fallback}]
    /\ attached = ToSet(Volumes) /\ plugs = 0
    /\ own_device = {} /\ screen = "menu"
    /\ found = <<>> /\ selected = 0 /\ rows = <<>> /\ started = {}

\* What open_protocol_exclusive may open: it is refused while somebody has it
\* open exclusively.
Openable == attached \ {Own}

\* Mutant: left to what the firmware refuses to open.
PresentThere(volume, own, path) == path \in content[volume]

\* r-boot's own file is not one to chainload.
Offered(volume, own, path) == path \in content[volume] /\ ~(path = Fallback /\ volume \in own)

scan(volume, own) ==
    FlattenSeq([i \in DOMAIN Known |->
        IF Offered(volume, own, Known[i]) THEN <<[device |-> volume, path |-> Known[i]]>> ELSE <<>>])

\* The volume already open first, then those of the others that can be opened.
discover(own, opened) ==
    (IF Own \in own THEN scan(Own, own) ELSE <<>>)
    \o FlattenSeq([i \in DOMAIN Volumes |->
                      IF Volumes[i] \in opened THEN scan(Volumes[i], own) ELSE <<>>])

\* draw.
List(bootloaders, n) ==
    [i \in DOMAIN bootloaders |->
        [marked |-> i = n + 1, title |-> Titles[bootloaders[i].path]]]

\* The `b` key; own_device_handle may have no answer.
Discover ==
    /\ screen = "menu"
    /\ own_device' \in {{}, {Own}}
    /\ \E opened \in SUBSET Openable : found' = discover(own_device', opened)
    /\ screen' = IF found' = <<>> THEN "notice" ELSE "list"
    /\ selected' = 0
    /\ rows' = IF found' = <<>> THEN rows ELSE List(found', 0)
    /\ UNCHANGED <<content, attached, plugs, started>>

\* notify waits for a key.
Dismiss == screen = "notice" /\ screen' = "menu"
           /\ UNCHANGED <<content, attached, plugs, own_device, found, selected, rows, started>>

Move(n) ==
    /\ screen = "list"
    /\ selected' = n /\ rows' = List(found, n)
    /\ UNCHANGED <<content, attached, plugs, own_device, screen, found, started>>
MoveUp   == Move(IF selected = 0 THEN Len(found) - 1 ELSE selected - 1)
MoveDown == Move((selected + 1) % Len(found))

Cancel == screen = "list" /\ screen' = "menu"
          /\ UNCHANGED <<content, attached, plugs, own_device, found, selected, rows, started>>

\* Mutant: by the file system already open, if there is one.
OpenFirst(b) == IF own_device # {} THEN own_device ELSE Openable \cap {b.device}

\* read: the volume, by the file system already open, or opened when it still is there.
Source(b) == (own_device \cup Openable) \cap {b.device}

\* Enter.  Between the row and the file nothing is checked but that it can be
\* read; an image that was read may be rejected; the error ends the menu.
Start ==
    /\ screen = "list"
    /\ LET b == found[selected + 1]
       IN  \/ \E volume \in Source(b) :
                /\ b.path \in content[volume]
                /\ screen' = "started" /\ started' = {[device |-> volume, path |-> b.path]}
           \/ screen' = "error" /\ UNCHANGED started
    /\ UNCHANGED <<content, attached, plugs, own_device, found, selected, rows>>

\* "selected bootloader image returned", with an error of its own or not.
Returned ==
    /\ screen = "started" /\ screen' = "error" /\ started' = {}
    /\ UNCHANGED <<content, attached, plugs, own_device, found, selected, rows>>

\* A stick is pulled out or put in, perhaps another than before.
Plug(volume) ==
    /\ volume # Own /\ plugs < MaxPlugs /\ plugs' = plugs + 1
    /\ IF volume \in attached
       THEN attached' = attached \ {volume} /\ UNCHANGED content
       ELSE /\ attached' = attached \cup {volume}
            /\ \E c \in Contents : content' = [content EXCEPT ![volume] = c[volume]]
    /\ UNCHANGED <<own_device, screen, found, selected, rows, started>>

ChainloadNext ==
    \/ Discover \/ Dismiss \/ MoveUp \/ MoveDown \/ Cancel \/ Start \/ Returned
    \/ \E volume \in ToSet(Volumes) : Plug(volume)

-----------------------------------------------------------------------------
OwnLeftOut == \A i \in DOMAIN found : found[i] # [device |-> Own, path |-> Fallback]

OneMarked == screen = "list" => \E i \in DOMAIN rows : {j \in DOMAIN rows : rows[j].marked} = {i}

\* A step starts the bootloader of the marked row, or none.
StartedThere ==
    \A b \in started' \ started :
       /\ b.device \in attached /\ b.path \in content[b.device]
       /\ \A i \in DOMAIN rows : rows[i].marked => b = found[i] /\ rows[i].title = Titles[b.path]

\* Whether or not the firmware says where r-boot came from, r-boot is never
\* offered to be started by itself, and one row is marked while the list is up.
\* What is started is the bootloader of the marked row, of that volume and not of
\* another that has one of the same title; and it is there when it is started,
\* whatever was pulled out or put in since the list was made.
OthersStarted == [][OwnLeftOut' /\ OneMarked' /\ StartedThere]_chainload
=============================================================================
