------------------------------- MODULE Status -------------------------------
(***************************************************************************)
(* `r-boot-cli status` beside the programs of SecureBoot: it reads the     *)
(* certificate, then BOOTX64.EFI, finds the signature in the file and says *)
(* whose it is.  It changes nothing.                                       *)
(*                                                                         *)
(* A signed file ends with its certificate table: dwLength bytes, eight of *)
(* them before the PKCS#7, and padding up to a multiple of eight.          *)
(***************************************************************************)
EXTENDS SecureBoot, Integers

CONSTANTS
    Headers,   \* bytes of a file in front of its certificate table
    Lengths    \* how long the PKCS#7 of a signature may be

ASSUME StatusAssumption == Headers \in Nat \ {0} /\ Lengths \subseteq Nat \ {0}

VARIABLE reader   \* [pc, cert, says]: the certificate as read, and the report

NoReader == [pc |-> "idle", cert |-> None, says |-> None]

Padded(n) == ((n + 7) \div 8) * 8

\* As sbsign and the build write it; size is that of the table.
Signed(b, n) ==
    [of |-> b, der |-> n, size |-> Padded(8 + n), dwLength |-> 8 + n, length |-> Headers + Padded(8 + n)]
Plain == [of |-> None, der |-> 0, size |-> 0, dwLength |-> 0, length |-> Headers]
Images(b) == IF b \in Pairs THEN {Signed(b, n) : n \in Lengths} ELSE {Plain}

\* What fs::read returns of a BOOTX64.EFI: a torn one has the beginning of some file.
Bytes(b) ==
    IF b # Torn THEN Images(b)
    ELSE UNION {{[file EXCEPT !.length = cut] : cut \in 0 .. file.length - 1} :
                  file \in {Plain} \cup UNION {Images(p) : p \in Pairs}}

\* Mutant: to the end of the table.
extract_table(file) ==
    IF Headers <= file.length /\ file.size # 0 /\ Headers + file.size <= file.length
    THEN {file.size - 8} ELSE {}

\* How many bytes of the PKCS#7 and what follows it are taken, {} if there is none.
extract_pkcs7(file) ==
    IF /\ Headers <= file.length /\ file.size # 0
       /\ Headers + file.size <= file.length
       /\ 8 <= file.dwLength /\ file.dwLength <= file.size
    THEN {file.dwLength - 8} ELSE {}

\* DER has an end of its own: less or more bytes are not decoded.
signer_cert(file) == IF extract_pkcs7(file) = {file.der} THEN file.of ELSE None

Report(b, c) ==
    IF b = None THEN {"not installed"}
    ELSE {LET signer == signer_cert(file)
          IN  IF signer = None THEN "unsigned" ELSE IF c = None THEN "unknown"
              ELSE IF signer = c THEN "matches" ELSE "different" : file \in Bytes(b)}

\* While it is copied, BOOTX64.EFI is a torn file.
BeingRead == {binary} \cup (IF activation.pc = "install" THEN {Torn} ELSE {})

\* show: cert_der first ...
ReadCert ==
    /\ InSystem /\ reader.pc = "idle"
    /\ reader' = [pc |-> "binary", cert |-> IF cert \in Pairs THEN cert ELSE None, says |-> None]
    /\ UNCHANGED vars

\* ... and then the binary.
ReadBinary ==
    /\ reader.pc = "binary"
    /\ \E b \in BeingRead : \E report \in Report(b, reader.cert) :
         reader' = [pc |-> "idle", cert |-> None, says |-> report]
    /\ UNCHANGED vars

\* The power fails, the command with it.
PowerOff == Restart /\ reader' = NoReader

SystemInit == Init /\ reader = NoReader

SystemNext ==
    \/ (SignKey \/ Activation \/ Enroll \/ BootSystem \/ ClearKeys) /\ UNCHANGED reader
    \/ PowerOff
    \/ ReadCert \/ ReadBinary

systemVars == <<vars, reader>>
SystemSpec == SystemInit /\ [][SystemNext]_systemVars

-----------------------------------------------------------------------------
\* What status says of the certificate it read and of a file that is on the
\* ESP when it is read is so: the signer of a whole file is recognized whatever
\* the length of its signature, and a torn file is called signed by nobody.
StatusTrue ==
    [][ReadBinary =>
         \E b \in BeingRead :
            CASE reader'.says = "not installed" -> b = None
              [] reader'.says = "unsigned"      -> b \in {Unsigned, Torn}
              [] reader'.says = "unknown"       -> b \in Pairs /\ reader.cert = None
              [] reader'.says = "matches"       -> b \in Pairs /\ reader.cert = b
              [] reader'.says = "different"     -> b \in Pairs /\ reader.cert \notin {None, b}]_systemVars
=============================================================================
