-------------------------- MODULE SecureBootProofs --------------------------
(***************************************************************************)
(* For any set of key pairs.  Whatever fails, is cut off or runs beside    *)
(* it, enrolment leaves one certificate in all three variables or the      *)
(* firmware in Setup Mode, and reports success only in the former case.    *)
(* After an activation that signed and ended well, without sign-key at     *)
(* work on the files, db.der is the certificate of the installed binary    *)
(* and enrolment cannot lock r-boot out; MCSecureInterrupted shows that it *)
(* can after one that was stopped.                                         *)
(***************************************************************************)
EXTENDS Status, TLAPS

\* sign-key touches neither the ESP nor the firmware, and owns up to what it
\* does to the files an activation reads.
LEMMA SignKeyStep ==
    ASSUME SecureInv, SignKey
    PROVE  SecureInv'
<1>1. UNCHANGED <<script, firmware, menu>>
  BY DEF SignKey, Create, WriteKey, WriteCert, RemoveKey, RemoveCert, SignKeyFails
<1>2. /\ key' \in Pairs \cup {None, Torn} /\ cert' \in Pairs \cup {None, Torn}
      /\ maker' \in [pc : {"idle", "key", "cert", "remove"}, pair : Pairs \cup {None}]
      /\ maker'.pc \in {"key", "cert"} => maker'.pair \in Pairs
  <2>. /\ key \in Pairs \cup {None, Torn} /\ cert \in Pairs \cup {None, Torn}
       /\ maker \in [pc : {"idle", "key", "cert", "remove"}, pair : Pairs \cup {None}]
       /\ maker.pc \in {"key", "cert"} => maker.pair \in Pairs
    BY DEF SecureInv, TypeOK
  <2>1. CASE Create
    BY <2>1 DEF Create
  <2>2. CASE WriteKey
    BY <2>2 DEF WriteKey, NoMaker
  <2>3. CASE WriteCert
    BY <2>3 DEF WriteCert, NoMaker
  <2>4. CASE RemoveKey
    BY <2>4 DEF RemoveKey
  <2>5. CASE RemoveCert
    BY <2>5 DEF RemoveCert, NoMaker
  <2>6. CASE SignKeyFails
    BY <2>6 DEF SignKeyFails, NoMaker
  <2>. QED BY <2>1, <2>2, <2>3, <2>4, <2>5, <2>6 DEF SignKey
<1>3. rekeyed' \in BOOLEAN /\ (rekeyed' = TRUE \/ (rekeyed' = rekeyed /\ cert' = cert))
  BY DEF SignKey, Create, WriteKey, WriteCert, RemoveKey, RemoveCert, SignKeyFails,
         SecureInv, TypeOK
<1>4. SignedInv'
  BY <1>1, <1>3 DEF SecureInv, SignedInv, CertMatchesBinary, script
<1>. QED BY <1>1, <1>2, <1>3, <1>4 DEF SecureInv, TypeOK, EnrollInv, EnrolledTogether,
                                      SuccessTrue, script, firmware

\* The activation script runs in the system, not beside the menu.
LEMMA ActivationStep ==
    ASSUME SecureInv, Activation
    PROVE  SecureInv'
<1>1. menu.pc = "off" /\ UNCHANGED <<key, cert, maker, firmware, menu>>
  BY DEF Activation, Activate, Sbsign, WriteDer, Install, ActivationFails, InSystem,
         SecureInv, EnrollInv, pki
<1>2. /\ rekeyed' \in BOOLEAN
      /\ der' \in Pairs \cup {None} /\ binary' \in Pairs \cup {None, Torn, Unsigned}
      /\ activation' \in [pc : {"idle", "sign", "der", "install"},
                          efi : Pairs \cup {None, Unsigned}]
      /\ signed' \in Pairs \cup {None}
      /\ SignedInv'
  <2>. /\ rekeyed \in BOOLEAN
       /\ der \in Pairs \cup {None} /\ binary \in Pairs \cup {None, Torn, Unsigned}
       /\ activation \in [pc : {"idle", "sign", "der", "install"},
                          efi : Pairs \cup {None, Unsigned}]
       /\ signed \in Pairs \cup {None}
       /\ SignedInv
    BY DEF SecureInv, TypeOK
  <2>. USE ValuesAssumption DEF SignedInv, CertMatchesBinary, pki
  <2>1. CASE Activate
    <3>1. PICK pc \in {"sign", "install"} : activation' = [pc |-> pc, efi |-> Unsigned]
      BY <2>1 DEF Activate
    <3>2. activation'.pc # "der" /\ activation'.efi = Unsigned /\ Unsigned \notin Pairs
      BY <3>1
    <3>3. activation' \in [pc : {"idle", "sign", "der", "install"},
                           efi : Pairs \cup {None, Unsigned}]
      BY <3>1
    <3>4. UNCHANGED <<der, binary>> /\ signed' = None /\ rekeyed' = FALSE
      BY <2>1 DEF Activate
    <3>. QED BY <3>2, <3>3, <3>4
  <2>2. CASE Sbsign
    BY <2>2 DEF Sbsign, NoScript
  <2>3. CASE WriteDer
    <3>1. CASE cert \in Pairs
      <4>1. der' = cert /\ activation' = [activation EXCEPT !.pc = "install"]
        BY <2>3, <3>1 DEF WriteDer
      <4>2. activation'.pc = "install" /\ activation'.efi = activation.efi
        BY <4>1
      <4>. QED BY <2>3, <3>1, <4>1, <4>2 DEF WriteDer
    <3>2. CASE cert \notin Pairs
      BY <2>3, <3>2 DEF WriteDer, NoScript
    <3>. QED BY <3>1, <3>2
  <2>4. CASE Install
    BY <2>4 DEF Install, NoScript
  <2>5. CASE ActivationFails
    BY <2>5 DEF ActivationFails, NoScript
  <2>. QED BY <2>1, <2>2, <2>3, <2>4, <2>5 DEF Activation
<1>. QED BY <1>1, <1>2 DEF SecureInv, TypeOK, EnrollInv, EnrolledTogether, SuccessTrue,
                          firmware

\* Enrolment and the notices around it.
LEMMA EnrollStep ==
    ASSUME SecureInv, Enroll
    PROVE  SecureInv'
<1>0. SignedInv'
  <2>1. UNCHANGED <<pki, script>>
    BY DEF Enroll, Confirmed, Refused, WriteDb, WriteKEK, WritePK
  <2>. QED BY <2>1 DEF SecureInv, SignedInv, CertMatchesBinary, pki, script
<1>. SUFFICES (TypeOK /\ EnrollInv /\ EnrolledTogether /\ SuccessTrue)'
  BY <1>0 DEF SecureInv
<1>. USE DEF SecureInv, TypeOK, EnrollInv, EnrolledTogether, SuccessTrue, pki, script,
             MenuStates
<1>1. CASE Confirmed
  BY <1>1 DEF Confirmed, AtMenu, SetupMode, firmware
<1>2. CASE Refused
  BY <1>2 DEF Refused, AtMenu, firmware
<1>3. CASE WriteDb
  BY <1>3 DEF WriteDb, Then
<1>4. CASE WriteKEK
  BY <1>4 DEF WriteKEK, Then
<1>5. CASE WritePK
  <2>1. /\ menu.cert = der /\ db = der /\ KEK = der
        /\ PK = None /\ menu.cert \in Pairs
        /\ UNCHANGED <<pki, script, db, KEK>>
    BY <1>5 DEF WritePK
  <2>2. CASE PK' = menu.cert /\ Then("enrolled")
    <3>1. menu' = [menu EXCEPT !.pc = "enrolled"]
      BY <2>2 DEF Then
    <3>2. menu'.pc = "enrolled" /\ menu'.cert = menu.cert
      BY <3>1
    <3>3. TypeOK'
      BY <2>1, <2>2, <3>1
    <3>4. SuccessTrue' /\ EnrolledTogether'
      BY <2>1, <2>2
    <3>5. EnrollInv'
      BY <2>1, <3>2, <1>5 DEF WritePK
    <3>. QED BY <3>3, <3>4, <3>5
  <2>3. CASE UNCHANGED PK /\ Then("failed")
    BY <1>5, <2>1, <2>3 DEF Then, WritePK
  <2>. QED BY <1>5, <2>2, <2>3 DEF WritePK
<1>. QED BY <1>1, <1>2, <1>3, <1>4, <1>5 DEF Enroll

\* Restarts, booting the system, clearing the keys.
LEMMA MachineStep ==
    ASSUME SecureInv, Restart \/ BootSystem \/ ClearKeys
    PROVE  SecureInv'
<1>0. SignedInv'
  <2>1. UNCHANGED <<key, cert, rekeyed, der, binary, signed>>
        /\ (activation' = activation \/ activation' = NoScript)
    BY DEF Restart, BootSystem, ClearKeys, pki, script
  <2>2. NoScript.pc = "idle" /\ NoScript.efi = None
    BY DEF NoScript
  <2>3. CASE activation' = activation
    BY <2>1, <2>3 DEF SecureInv, SignedInv, CertMatchesBinary
  <2>4. CASE activation' = NoScript
    BY <2>1, <2>2, <2>4 DEF SecureInv, SignedInv, CertMatchesBinary
  <2>. QED BY <2>1, <2>3, <2>4
<1>. SUFFICES (TypeOK /\ EnrollInv /\ EnrolledTogether /\ SuccessTrue)'
  BY <1>0 DEF SecureInv
<1>. USE DEF SecureInv, TypeOK, EnrollInv, EnrolledTogether, SuccessTrue, pki, script,
             firmware
<1>1. CASE Restart
  BY <1>1 DEF Restart, NoMaker, NoScript, Off, MenuStates
<1>2. CASE BootSystem
  BY <1>2 DEF BootSystem, Off
<1>3. CASE ClearKeys
  BY <1>3 DEF ClearKeys, InSystem
<1>. QED BY <1>1, <1>2, <1>3

\* Whatever may fail or interleave.
LEMMA Invariance == Spec => []SecureInv
<1>1. Init => SecureInv
  <2>0. Init => rekeyed \in BOOLEAN
    BY DEF Init
  <2>1. Init => TypeOK
    BY <2>0 DEF Init, NoMaker, NoScript, Off, TypeOK
  <2>2. Off.pc = "off"
    BY DEF Off
  <2>3. NoScript.pc = "idle" /\ NoScript.efi = None
    BY DEF NoScript
  <2>5. Init => EnrollInv /\ EnrolledTogether /\ SuccessTrue
    BY <2>2, <2>3 DEF Init, EnrollInv, EnrolledTogether, SuccessTrue
  <2>4. Init => SignedInv
    BY <2>3 DEF Init, SignedInv, CertMatchesBinary
  <2>. QED BY <2>1, <2>5, <2>4 DEF SecureInv
<1>2. SecureInv /\ [Next]_vars => SecureInv'
  <2>1. ASSUME SecureInv, UNCHANGED vars PROVE SecureInv'
    BY <2>1 DEF vars, pki, script, firmware, SecureInv, TypeOK, EnrollInv,
                EnrolledTogether, SuccessTrue, SignedInv, CertMatchesBinary
  <2>. QED BY <2>1, SignKeyStep, ActivationStep, EnrollStep, MachineStep DEF Next
<1>. QED BY <1>1, <1>2, PTL DEF Spec

-----------------------------------------------------------------------------
\* Types, and that nothing but a certificate is enrolled.
THEOREM TypeCorrectness == Spec => []TypeOK
<1>1. SecureInv => TypeOK
  BY DEF SecureInv
<1>. QED BY <1>1, Invariance, PTL

\* Out of Setup Mode db, KEK and PK are one certificate.
THEOREM VariablesEnrolledTogether == Spec => []EnrolledTogether
<1>1. SecureInv => EnrolledTogether
  BY DEF SecureInv
<1>. QED BY <1>1, Invariance, PTL

\* Success is reported only when all three hold the certificate on the ESP.
THEOREM SuccessIsTrue == Spec => []SuccessTrue
<1>1. SecureInv => SuccessTrue
  BY DEF SecureInv
<1>. QED BY <1>1, Invariance, PTL

\* db.der is the certificate of the BOOTX64.EFI an activation installed.
THEOREM CertMatchesInstalled == Spec => []CertMatchesBinary
<1>1. SecureInv => CertMatchesBinary
  BY DEF SecureInv, SignedInv
<1>. QED BY <1>1, Invariance, PTL

\* After such an activation the Platform Key comes with a db that verifies
\* the installed r-boot.
THEOREM EnrolmentKeepsBooting == Spec => EnrolsSigner
<1>1. ASSUME SecureInv, [Next]_vars
      PROVE  [PK' # PK /\ PK' # None /\ signed # None => binary = db']_vars
  <2>. SUFFICES ASSUME PK' # PK, PK' # None, signed # None
                PROVE  binary = db'
    OBVIOUS
  <2>1. WritePK
    BY <1>1 DEF Next, vars, pki, script, firmware, SignKey, Create, WriteKey, WriteCert,
       RemoveKey, RemoveCert, SignKeyFails, Activation, Activate, Sbsign, WriteDer,
       Install, ActivationFails, Enroll, Confirmed, Refused, WriteDb, WriteKEK,
       Restart, BootSystem, ClearKeys
  <2>2. menu.pc = "PK" /\ db' = db
    BY <2>1 DEF WritePK
  <2>3. db = menu.cert /\ menu.cert = der
    BY <1>1, <2>2 DEF SecureInv, EnrollInv
  <2>4. der = binary
    BY <1>1 DEF SecureInv, SignedInv, CertMatchesBinary
  <2>. QED BY <2>2, <2>3, <2>4
<1>. QED BY <1>1, Invariance, PTL DEF Spec, EnrolsSigner

-----------------------------------------------------------------------------
\* `r-boot-cli status` beside them changes nothing: what is proved of the
\* others holds with it as well.
THEOREM StatusChangesNothing == SystemSpec => Spec
<1>1. SystemInit => Init
  BY DEF SystemInit
<1>2. [SystemNext]_systemVars => [Next]_vars
  BY DEF SystemNext, systemVars, Next, PowerOff, ReadCert, ReadBinary
<1>. QED BY <1>1, <1>2, PTL DEF SystemSpec, Spec

\* The table has room for what it says is in it.
LEMMA PaddedCovers ==
    ASSUME NEW n \in Nat
    PROVE  Padded(n) \in Nat /\ n <= Padded(n)
BY DEF Padded

\* The signer of a whole file is recognized, however long its signature is.
LEMMA WholeFile ==
    ASSUME NEW b \in Pairs, NEW file \in Images(b)
    PROVE  signer_cert(file) = b
<1>1. PICK n \in Lengths : file = Signed(b, n)
  BY DEF Images
<1>2. n \in Nat \ {0} /\ Headers \in Nat
  BY StatusAssumption
<1>3. Padded(8 + n) \in Nat /\ 8 + n <= Padded(8 + n)
  BY <1>2, PaddedCovers
<1>4. extract_pkcs7(file) = {n}
  <2>1. /\ file.length = Headers + Padded(8 + n) /\ file.size = Padded(8 + n)
        /\ file.dwLength = 8 + n
    BY <1>1 DEF Signed
  <2>. QED BY <2>1, <1>2, <1>3 DEF extract_pkcs7
<1>. QED BY <1>1, <1>4 DEF signer_cert, Signed

\* A torn file, and one that was never signed, has no signer.
LEMMA NoSigner ==
    ASSUME NEW b \in {Unsigned, Torn}, NEW file \in Bytes(b)
    PROVE  signer_cert(file) = None
<1>1. CASE file = Plain
  <2>1. extract_pkcs7(file) = {}
    BY <1>1 DEF extract_pkcs7, Plain
  <2>. QED BY <2>1 DEF signer_cert
<1>2. ASSUME NEW whole, NEW cut \in 0 .. whole.length - 1,
             whole = Plain \/ \E p \in Pairs : whole \in Images(p),
             file = [whole EXCEPT !.length = cut]
      PROVE  extract_pkcs7(file) = {}
  <2>1. CASE whole = Plain
    <3>1. file.size = 0
      BY <2>1, <1>2 DEF Plain
    <3>. QED BY <3>1 DEF extract_pkcs7
  <2>2. CASE \E p \in Pairs : whole \in Images(p)
    <3>1. PICK p \in Pairs, n \in Lengths : whole = Signed(p, n)
      BY <2>2 DEF Images
    <3>2. n \in Nat /\ Headers \in Nat /\ Padded(8 + n) \in Nat
      BY StatusAssumption, PaddedCovers
    <3>3. file.size = Padded(8 + n) /\ file.length = cut /\ whole.length = Headers + Padded(8 + n)
      BY <3>1, <1>2 DEF Signed
    <3>4. ~(Headers + file.size <= file.length)
      BY <3>2, <3>3
    <3>. QED BY <3>4 DEF extract_pkcs7
  <2>. QED BY <1>2, <2>1, <2>2
<1>3. CASE file # Plain
  <2>1. b = Torn
    BY <1>3, ValuesAssumption DEF Bytes, Images
  <2>2. PICK whole \in {Plain} \cup UNION {Images(p) : p \in Pairs} :
          \E cut \in 0 .. whole.length - 1 : file = [whole EXCEPT !.length = cut]
    BY <2>1 DEF Bytes
  <2>3. whole = Plain \/ \E p \in Pairs : whole \in Images(p)
    BY <2>2
  <2>4. extract_pkcs7(file) = {}
    BY <1>2, <2>2, <2>3
  <2>. QED BY <2>4 DEF signer_cert
<1>. QED BY <1>1, <1>3

\* What status says is so, for signatures of any length.
THEOREM StatusIsTrue == SystemSpec => StatusTrue
<1> DEFINE Verdict(b) ==
        CASE reader'.says = "not installed" -> b = None
          [] reader'.says = "unsigned"      -> b \in {Unsigned, Torn}
          [] reader'.says = "unknown"       -> b \in Pairs /\ reader.cert = None
          [] reader'.says = "matches"       -> b \in Pairs /\ reader.cert = b
          [] reader'.says = "different"     -> b \in Pairs /\ reader.cert \notin {None, b}
<1>1. ASSUME SecureInv, ReadBinary
      PROVE  \E b \in BeingRead : Verdict(b)
  <2>1. PICK b \in BeingRead : \E report \in Report(b, reader.cert) :
            reader' = [pc |-> "idle", cert |-> None, says |-> report]
    BY <1>1 DEF ReadBinary
  <2>2. reader'.says \in Report(b, reader.cert)
    BY <2>1
  <2>3. b \in Pairs \cup {None, Torn, Unsigned}
    BY <1>1, <2>1 DEF SecureInv, TypeOK, BeingRead
  <2>4. Verdict(b)
    <3>1. CASE b = None
      BY <2>2, <3>1 DEF Report
    <3>2. CASE b \in {Torn, Unsigned}
      <4>1. reader'.says = "unsigned"
        BY <2>2, <3>2, NoSigner, ValuesAssumption DEF Report
      <4>. QED BY <3>2, <4>1
    <3>3. CASE b \in Pairs
      <4>1. b # None /\ b # Torn
        BY <3>3, ValuesAssumption
      <4>2. reader'.says = IF reader.cert = None THEN "unknown"
                           ELSE IF b = reader.cert THEN "matches" ELSE "different"
        BY <2>2, <3>3, <4>1, WholeFile DEF Report, Bytes
      <4>. QED BY <3>3, <4>1, <4>2
    <3>. QED BY <2>3, <3>1, <3>2, <3>3
  <2>. QED BY <2>1, <2>4
<1>2. SecureInv /\ [SystemNext]_systemVars => [ReadBinary => \E b \in BeingRead : Verdict(b)]_systemVars
  BY <1>1
<1>. QED BY <1>2, Invariance, StatusChangesNothing, PTL DEF SystemSpec, StatusTrue

=============================================================================
