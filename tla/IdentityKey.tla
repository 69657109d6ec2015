----------------------------- MODULE IdentityKey -----------------------------
(***************************************************************************)
(* resolve_identity_key and load_or_generate_key, telemetry.rs: the proxy  *)
(* is known to the telemetry backend by a key kept in a file, looked for   *)
(* in several places and made when there is none.  fs::write first         *)
(* truncates the file and then fills it, so that a crash or an I/O error   *)
(* in between leaves a file that exists and is no key.  Keys are numbered  *)
(* in the order they are made.                                             *)
(***************************************************************************)
EXTENDS Integers, Sequences

CONSTANTS
    Plain,     \* where a key may be, in the order tried: .pumpkin/identity.key first
    InData,    \* the same places below data/
    MaxFaults  \* bound: I/O errors

ASSUME KeyAssumption ==
    /\ MaxFaults \in Nat
    /\ Plain \in Seq(STRING) /\ InData \in Seq(STRING)
    /\ Plain # <<>> /\ InData # <<>>

VARIABLES
    file,     \* what each path holds
    dataDir,  \* data is a directory
    at,       \* which place resolve_identity_key has come to
    io,       \* and what load_or_generate_key does there
    made,     \* keys made so far
    identity, \* the key resolve_identity_key has returned
    known,    \* the last key that was in service
    faults    \* I/O errors so far

disk == <<file, dataDir>>
keyVars == <<file, dataDir, at, io, made, identity, known, faults>>

Absent == 0
Torn == -1
IsKey(content) == content > 0

\* The places that are tried if they exist, then data/ and at last the primary one,
\* where a key is made if there is none.
Candidates == Plain \o InData
Places == Candidates \o <<Head(InData), Head(Plain)>>
Paths == {Places[i] : i \in DOMAIN Places}
path == Places[at]
MustExist == at <= Len(Candidates)
IsData == at = Len(Candidates) + 1
IsLast == at = Len(Places)

\* What earlier processes have left: no key, one that an older version put in another
\* place, or the torn file of one that was killed before it came into service.
KeyInit ==
    /\ dataDir \in BOOLEAN
    /\ LET none == [p \in Paths |-> Absent]
           first == IF dataDir THEN Head(InData) ELSE Head(Plain)
       IN  \/ file = none
           \/ file = [none EXCEPT ![first] = Torn]
           \/ \E old \in Paths \ {Head(Plain), Head(InData)} : file = [none EXCEPT ![old] = 1]
    /\ at = 1 /\ io = "load"
    /\ made = 1 /\ identity = 0 /\ known = 0 /\ faults = 0

Fault == faults < MaxFaults /\ faults' = faults + 1

Return(k) == identity' = k /\ io' = "returned" /\ UNCHANGED at

\* load_or_generate_key has failed: the next place, or a key that is not saved.
NextPlace ==
    IF IsLast
    THEN Return(made + 1) /\ made' = made + 1
    ELSE at' = at + 1 /\ io' = "load" /\ UNCHANGED <<made, identity>>

-----------------------------------------------------------------------------
(* load_or_generate_key, one step for each call into the file system.       *)

\* resolve_identity_key passes over a place that does not exist.
PassOver ==
    /\ io = "load"
    /\ \/ MustExist /\ file[path] = Absent
       \/ IsData /\ ~dataDir
    /\ NextPlace
    /\ UNCHANGED <<disk, known, faults>>

MayLoad == io = "load" /\ (MustExist => file[path] # Absent) /\ (IsData => dataDir)

\* Mutant: a file that holds no key is an error like any other.
LoadRefusesTorn ==
    /\ MayLoad
    /\ \/ IsKey(file[path]) /\ Return(file[path]) /\ UNCHANGED made
       \/ file[path] = Torn /\ NextPlace
       \/ file[path] = Absent /\ made' = made + 1 /\ io' = "open" /\ UNCHANGED <<at, identity>>
    /\ UNCHANGED <<disk, known, faults>>

\* load_or_generate_key: exists() and read(); 32 bytes are the key, anything else is
\* replaced by a new one.
Load ==
    /\ MayLoad
    /\ IF IsKey(file[path])
       THEN Return(file[path]) /\ UNCHANGED made
       ELSE made' = made + 1 /\ io' = "open" /\ UNCHANGED <<at, identity>>
    /\ UNCHANGED <<disk, known, faults>>

\* Mutant: a file that cannot be read is replaced like one that holds no key.
ReadFailsReplaces ==
    /\ MayLoad /\ (file[path] # Absent \/ IsData) /\ Fault
    /\ made' = made + 1 /\ io' = "open" /\ UNCHANGED <<at, identity>>
    /\ UNCHANGED <<disk, known>>

\* read() fails, or resolve_identity_key's own exists() or is_dir() says no because
\* something on the way cannot be reached.
ReadFails ==
    /\ MayLoad /\ (file[path] # Absent \/ IsData) /\ Fault
    /\ NextPlace
    /\ UNCHANGED <<disk, known>>

\* load_or_generate_key's exists() says no of a file that is there: a new key is made.
Overlooks ==
    /\ MayLoad /\ file[path] # Absent /\ Fault
    /\ made' = made + 1 /\ io' = "overlooked" /\ UNCHANGED <<at, identity>>
    /\ UNCHANGED <<disk, known>>

\* create_dir_all, and the opening half of fs::write.
Open ==
    /\ io \in {"open", "overlooked"}
    /\ file' = [file EXCEPT ![path] = Torn]
    /\ io' = "fill"
    /\ UNCHANGED <<dataDir, at, made, identity, known, faults>>

\* The filling half; only now is the key returned.
Fill ==
    /\ io = "fill"
    /\ file' = [file EXCEPT ![path] = made]
    /\ Return(made)
    /\ UNCHANGED <<dataDir, made, known, faults>>

\* A directory that cannot be made, a file that cannot be opened, a full disk.
WriteFails ==
    /\ io \in {"open", "overlooked", "fill"} /\ Fault
    /\ NextPlace
    /\ UNCHANGED <<disk, known>>

\* The key goes into service.
Serve ==
    /\ io = "returned"
    /\ known' = identity
    /\ at' = 1 /\ io' = "load" /\ identity' = 0
    /\ UNCHANGED <<disk, made, faults>>

Resolve == PassOver \/ Load \/ ReadFails \/ Overlooks \/ Open \/ Fill \/ WriteFails

\* The process is gone, its files stay.
Forget ==
    /\ at' = 1 /\ io' = "load" /\ identity' = 0
    /\ UNCHANGED <<disk, made, known, faults>>

-----------------------------------------------------------------------------
(* Properties.                                                              *)

\* The file is "used to persist the telemetry identity key across restarts" (telemetry.rs):
\* wherever a process is killed, also while it writes the file, every later one comes to
\* the key that was last in service, as long as there was no I/O error.
IdentityKept == io = "returned" /\ known # 0 /\ faults = 0 => identity = known

\* A file that holds a key is written again only when load_or_generate_key's own exists()
\* has just failed on it: no crash, no unreadable or torn file elsewhere and no failed
\* write before makes the search come back to a key and replace it.
KeyFilesKept ==
    [][\A p \in Paths : IsKey(file[p]) /\ file'[p] # file[p] => io = "overlooked" /\ p = path]_keyVars
=============================================================================
