----------------------------- MODULE SecureBoot -----------------------------
(***************************************************************************)
(* From the signing key to the firmware's Secure Boot variables:           *)
(*   r-boot-cli sign-key     makes and removes the key and its certificate *)
(*   the activation script   signs BOOTX64.EFI, puts the certificate on    *)
(*                           the ESP as db.der and runs the installer      *)
(*   r-boot's menu, key `e`  enrols db.der as db, KEK and PK               *)
(* Each of them works in steps, and the power may fail after every one.    *)
(*                                                                         *)
(* A key pair, its certificate and what is signed with it are all named by *)
(* the pair.  The firmware is external: with no PK it is in Setup Mode and *)
(* takes an update of a variable or rejects it; with a PK it starts only   *)
(* what db verifies.  SecureBootEnable, whose failure is ignored, has no   *)
(* part in that.                                                           *)
(***************************************************************************)
CONSTANTS
    Pairs,        \* key pairs
    None,         \* no such file or variable
    Torn,         \* a file whose writing was cut short
    Unsigned      \* a BOOTX64.EFI without a signature

ASSUME ValuesAssumption == None # Torn /\ None # Unsigned /\ Torn # Unsigned
                           /\ Pairs \cap {None, Torn, Unsigned} = {}

VARIABLES
    key, cert,    \* /var/lib/r-boot/pki: db.key and db.pem
    maker,        \* the sign-key process: [pc, pair]
    der,          \* EFI/BOOT/db.der on the ESP
    binary,       \* EFI/BOOT/BOOTX64.EFI: the pair that signed it
    activation,   \* the activation script: [pc, efi], efi being $BOOT_EFI
    rekeyed,      \* history: sign-key wrote or removed a file since the
                  \*   last activation began
    signed,       \* history: the pair of the last activation, if it ended
                  \*   well, signed, and was not rekeyed; or None
    db, KEK, PK,  \* the firmware's variables
    menu          \* r-boot: [pc, cert], cert being that of the payload

pki == <<key, cert, maker, rekeyed>>
script == <<der, binary, activation, signed>>
firmware == <<db, KEK, PK>>
vars == <<pki, script, firmware, menu>>

NoMaker == [pc |-> "idle", pair |-> None]
NoScript == [pc |-> "idle", efi |-> None]
Off == [pc |-> "off", cert |-> None]

\* The menu waits for a key, below the last notice if there was one.
MenuStates == {"menu", "enrolled", "failed", "refused"}
AtMenu == menu.pc \in MenuStates

Quiet == maker.pc = "idle" /\ activation.pc = "idle"
InSystem == menu.pc = "off"

Init ==
    /\ key = None /\ cert = None /\ maker = NoMaker /\ rekeyed = FALSE
    /\ der = None /\ binary = None /\ activation = NoScript /\ signed = None
    /\ db = None /\ KEK = None /\ PK = None
    /\ menu = Off

-----------------------------------------------------------------------------
(* r-boot-cli sign-key *)

\* A new key is one that nothing was made with before.
Fresh(pair) == pair \notin {key, cert, der, binary, db, KEK, PK, activation.efi}

MayChangeKeys == InSystem /\ maker.pc = "idle"

\* Refused without --force if one of the files exists, whatever is in it.
Create ==
    /\ MayChangeKeys
    /\ \E force \in BOOLEAN : force \/ (key = None /\ cert = None)
    /\ \E pair \in Pairs :
         Fresh(pair) /\ maker' = [pc |-> "key", pair |-> pair]
    /\ UNCHANGED <<key, cert, rekeyed, script, firmware, menu>>

\* db.key is truncated and written ...
WriteKey ==
    /\ maker.pc = "key"
    /\ \/ key' = maker.pair /\ maker' = [maker EXCEPT !.pc = "cert"]
       \/ key' = Torn /\ maker' = NoMaker
    /\ rekeyed' = TRUE
    /\ UNCHANGED <<cert, script, firmware, menu>>

\* ... and then db.pem.
WriteCert ==
    /\ maker.pc = "cert"
    /\ cert' \in {maker.pair, Torn}
    /\ maker' = NoMaker
    /\ rekeyed' = TRUE
    /\ UNCHANGED <<key, script, firmware, menu>>

\* remove --force deletes db.key ...
RemoveKey ==
    /\ MayChangeKeys
    /\ key # None \/ cert # None
    /\ key' = None
    /\ maker' = [pc |-> "remove", pair |-> None]
    /\ rekeyed' = TRUE
    /\ UNCHANGED <<cert, script, firmware, menu>>

\* ... and then db.pem.
RemoveCert ==
    /\ maker.pc = "remove"
    /\ cert' = None
    /\ maker' = NoMaker
    /\ rekeyed' = TRUE
    /\ UNCHANGED <<key, script, firmware, menu>>

SignKeyFails ==
    /\ maker.pc # "idle"
    /\ maker' = NoMaker
    /\ UNCHANGED <<key, cert, rekeyed, script, firmware, menu>>

-----------------------------------------------------------------------------
(* The activation script; `set -e` ends it at the first failure. *)

\* Without signing, BOOT_EFI is the package's file and db.der is not touched.
Activate ==
    /\ InSystem
    /\ activation.pc = "idle"
    /\ \E sign \in BOOLEAN :
         /\ sign => key # None
         /\ activation' = [pc |-> IF sign THEN "sign" ELSE "install", efi |-> Unsigned]
    /\ signed' = None
    /\ rekeyed' = FALSE
    /\ UNCHANGED <<key, cert, maker, der, binary, firmware, menu>>

\* sbsign takes no key that is not the certificate's.
Sbsign ==
    /\ activation.pc = "sign"
    /\ activation' = IF key \in Pairs /\ key = cert
                       THEN [pc |-> "der", efi |-> cert]
                       ELSE NoScript
    /\ UNCHANGED <<pki, der, binary, signed, firmware, menu>>

\* Mutant: a db.der that is there is kept.
WriteDerOnce ==
    /\ activation.pc = "der"
    /\ der' = IF der = None THEN cert ELSE der
    /\ activation' = [activation EXCEPT !.pc = "install"]
    /\ UNCHANGED <<pki, binary, signed, firmware, menu>>

\* openssl converts the certificate, reading it once more.
WriteDer ==
    /\ activation.pc = "der"
    /\ IF cert \in Pairs
         THEN der' = cert /\ activation' = [activation EXCEPT !.pc = "install"]
         ELSE activation' = NoScript /\ UNCHANGED der
    /\ UNCHANGED <<pki, binary, signed, firmware, menu>>

\* Mutant: the package's file is installed although it was signed.
InstallUnsigned ==
    /\ activation.pc = "install"
    /\ binary' = Unsigned
    /\ signed' = IF activation.efi \in Pairs /\ ~rekeyed THEN activation.efi ELSE None
    /\ activation' = NoScript
    /\ UNCHANGED <<pki, der, firmware, menu>>

\* r-boot-conf-builder copies $BOOT_EFI over BOOTX64.EFI.
Install ==
    /\ activation.pc = "install"
    /\ binary' = activation.efi
    /\ signed' = IF activation.efi \in Pairs /\ ~rekeyed THEN activation.efi ELSE None
    /\ activation' = NoScript
    /\ UNCHANGED <<pki, der, firmware, menu>>

\* The installer fails, before its copy or during it, or the script is
\* killed.
ActivationFails ==
    /\ activation.pc # "idle"
    /\ binary' = binary \/ (activation.pc = "install" /\ binary' = Torn)
    /\ activation' = NoScript
    /\ UNCHANGED <<pki, der, signed, firmware, menu>>

-----------------------------------------------------------------------------
(* Restarts and the firmware *)

\* The firmware starts a whole BOOTX64.EFI that its db verifies, if it
\* verifies at all.
Starts == binary \notin {None, Torn} /\ (PK # None => binary = db)

\* Whatever runs is gone: sign-key, an activation, an enrolment.
Restart ==
    /\ maker' = NoMaker
    /\ activation' = NoScript
    /\ menu' = IF Starts THEN [pc |-> "menu", cert |-> None] ELSE Off
    /\ UNCHANGED <<key, cert, rekeyed, der, binary, signed, firmware>>

\* The menu boots an entry: the system runs again.
BootSystem ==
    /\ AtMenu
    /\ menu' = Off
    /\ UNCHANGED <<pki, script, firmware>>

\* The firmware's setup clears the Platform Key, with or without the rest.
ClearKeys ==
    /\ InSystem /\ Quiet
    /\ PK' = None
    /\ \/ UNCHANGED <<db, KEK>>
       \/ db' = None /\ KEK' = None
    /\ UNCHANGED <<pki, script, menu>>

-----------------------------------------------------------------------------
(* r-boot: enroll *)

\* No PK is enrolled: what is_setup_mode reads.
SetupMode == PK = None

\* `y`, in Setup Mode, with a certificate and a clock that can be read.
Confirmed ==
    /\ AtMenu
    /\ SetupMode
    /\ der # None
    /\ menu' = [pc |-> "db", cert |-> der]
    /\ UNCHANGED <<pki, script, firmware>>

\* Another key, no Setup Mode, no certificate, no clock: a notice.
Refused ==
    /\ AtMenu
    /\ menu' = [pc |-> "refused", cert |-> None]
    /\ UNCHANGED <<pki, script, firmware>>

Then(pc) == menu' = [menu EXCEPT !.pc = pc]

WriteDb ==
    /\ menu.pc = "db"
    /\ \/ db' = menu.cert /\ Then("KEK")
       \/ UNCHANGED db /\ Then("failed")
    /\ UNCHANGED <<pki, script, KEK, PK>>

\* Mutant: as with SecureBootEnable, a rejected KEK is not looked at.
WriteKEKIgnored ==
    /\ menu.pc = "KEK"
    /\ KEK' \in {KEK, menu.cert}
    /\ Then("PK")
    /\ UNCHANGED <<pki, script, db, PK>>

WriteKEK ==
    /\ menu.pc = "KEK"
    /\ \/ KEK' = menu.cert /\ Then("PK")
       \/ UNCHANGED KEK /\ Then("failed")
    /\ UNCHANGED <<pki, script, db, PK>>

\* Mutant: a rejected PK is not looked at.
WritePKIgnored ==
    /\ menu.pc = "PK"
    /\ PK' \in {PK, menu.cert}
    /\ Then("enrolled")
    /\ UNCHANGED <<pki, script, db, KEK>>

\* The PK comes last: it ends Setup Mode.
WritePK ==
    /\ menu.pc = "PK"
    /\ \/ PK' = menu.cert /\ Then("enrolled")
       \/ UNCHANGED PK /\ Then("failed")
    /\ UNCHANGED <<pki, script, db, KEK>>

-----------------------------------------------------------------------------
SignKey == Create \/ WriteKey \/ WriteCert \/ RemoveKey \/ RemoveCert \/ SignKeyFails
Activation == Activate \/ Sbsign \/ WriteDer \/ Install \/ ActivationFails
Enroll == Confirmed \/ Refused \/ WriteDb \/ WriteKEK \/ WritePK
Next == SignKey \/ Activation \/ Enroll \/ Restart \/ BootSystem \/ ClearKeys

Spec == Init /\ [][Next]_vars

-----------------------------------------------------------------------------
\* The shapes of all files, variables and processes; what is enrolled is a
\* certificate.
TypeOK ==
    /\ key \in Pairs \cup {None, Torn} /\ cert \in Pairs \cup {None, Torn}
    /\ maker \in [pc : {"idle", "key", "cert", "remove"}, pair : Pairs \cup {None}]
    /\ maker.pc \in {"key", "cert"} => maker.pair \in Pairs
    /\ der \in Pairs \cup {None}
    /\ binary \in Pairs \cup {None, Torn, Unsigned}
    /\ activation \in [pc : {"idle", "sign", "der", "install"},
                       efi : Pairs \cup {None, Unsigned}]
    /\ rekeyed \in BOOLEAN
    /\ signed \in Pairs \cup {None}
    /\ {db, KEK, PK} \subseteq Pairs \cup {None}
    /\ menu \in [pc : MenuStates \cup {"off", "db", "KEK", "PK"}, cert : Pairs \cup {None}]
    /\ menu.pc \in {"enrolled", "db", "KEK", "PK"} => menu.cert \in Pairs

\* Out of Setup Mode, db, KEK and PK are one certificate: no failure, power
\* cut or second attempt with another certificate leaves them mixed.
EnrolledTogether == PK # None => db = PK /\ KEK = PK

\* "Secure boot keys enrolled." is said only when all three variables hold
\* the certificate that was on the ESP.
SuccessTrue == menu.pc = "enrolled" => {db, KEK, PK} = {der}

\* db.der is the certificate of the BOOTX64.EFI next to it after an
\* activation that signed and ended well, however the keys, the activations
\* and the enrolments before it were changed, cut off or failed, as long as
\* sign-key kept its hands off the files while it ran.
CertMatchesBinary == signed # None => der = signed /\ binary = signed

\* After such an activation enrolment does not lock r-boot out: the Platform
\* Key it sets comes with a db that verifies the BOOTX64.EFI on the ESP.
EnrolsSigner == [][PK' # PK /\ PK' # None /\ signed # None => binary = db']_vars

\* module.nix:100 and secureboot.rs:23: db.der is the certificate of the
\* signed BOOTX64.EFI alongside it.  If so, no enrolment locks r-boot out.
EnrolsInstalledSigner == [][PK' # PK /\ PK' # None => binary = db']_vars

-----------------------------------------------------------------------------
(* What the properties rest on *)

\* The menu and an activation never run together, so db.der stays as read;
\* the variables written so far hold it, and Setup Mode lasts until PK.
EnrollInv ==
    /\ menu.pc # "off" => activation.pc = "idle"
    /\ menu.pc \in {"db", "KEK", "PK"} => PK = None /\ menu.cert = der
    /\ menu.pc \in {"KEK", "PK"} => db = menu.cert
    /\ menu.pc = "PK" => KEK = menu.cert

\* As long as sign-key keeps its hands off, the certificate an activation
\* signed with is the one converted, and the one on the ESP when it ends.
SignedInv ==
    /\ activation.pc # "idle" => signed = None
    /\ activation.pc \in {"idle", "sign"} => activation.efi \in {None, Unsigned}
    /\ activation.pc = "der" /\ ~rekeyed => activation.efi = cert
    /\ activation.pc = "install" /\ activation.efi \in Pairs /\ ~rekeyed
         => activation.efi = der
    /\ CertMatchesBinary

SecureInv == TypeOK /\ EnrollInv /\ EnrolledTogether /\ SuccessTrue /\ SignedInv

=============================================================================
