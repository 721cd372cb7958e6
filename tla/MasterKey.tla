----------------------------- MODULE MasterKey ------------------------------
(***************************************************************************)
(* The key that encrypts the settings and signs the sessions: one file on  *)
(* a volume that the API, the worker and the catalog sync share, made by   *)
(* whichever of them needs it first, and cached by each process.           *)
(***************************************************************************)
CONSTANTS
    Procs,     \* operating system processes of Werft
    Threads,   \* threads that use the settings
    ProcOf,    \* thread -> its process
    NoKey

ASSUME KeyAssumption == ProcOf \in [Threads -> Procs] /\ NoKey \notin Threads

VARIABLES
    keyFile,   \* master.key: does it exist, and which key is in it?
    keys       \* process -> _cached_key

keyVars == <<keyFile, keys>>

(* A key is random: it is named by the thread that drew it.                *)
Keys == Threads \cup {NoKey}

KeyTypeOK ==
    /\ keyFile \in [exists : BOOLEAN, key : Keys]
    /\ keys \in [Procs -> Keys]

KeyInit ==
    /\ keyFile = [exists |-> FALSE, key |-> NoKey]
    /\ keys = [p \in Procs |-> NoKey]

(* _cached_key, or a file of 32 bytes.                                     *)
HaveKey(th) ==
    \/ keys[ProcOf[th]] # NoKey /\ UNCHANGED keyVars
    \/ /\ keys[ProcOf[th]] = NoKey
       /\ keyFile.key # NoKey
       /\ keys' = [keys EXCEPT ![ProcOf[th]] = keyFile.key]
       /\ UNCHANGED keyFile

(* The file exists, but its creator has not written it yet: RuntimeError.  *)
KeyRaises(th) ==
    /\ keys[ProcOf[th]] = NoKey
    /\ keyFile.exists /\ keyFile.key = NoKey
    /\ UNCHANGED keyVars

NoKeyFile(th) == keys[ProcOf[th]] = NoKey /\ ~keyFile.exists /\ UNCHANGED keyVars

(* Mutant of CreateKeyFile: opened without O_EXCL.                         *)
OverwriteKeyFile ==
    keyFile' = [exists |-> TRUE, key |-> NoKey] /\ UNCHANGED keys

(* O_CREAT | O_EXCL: of several threads that found no file one makes it.   *)
CreateKeyFile ==
    /\ ~keyFile.exists
    /\ keyFile' = [exists |-> TRUE, key |-> NoKey]
    /\ UNCHANGED keys

WriteKey(th) ==
    /\ keyFile' = [keyFile EXCEPT !.key = th]
    /\ keys' = [keys EXCEPT ![ProcOf[th]] = th]

(* A process that starts again reads the file again.                       *)
ForgetKey(p) == keys' = [keys EXCEPT ![p] = NoKey] /\ UNCHANGED keyFile
=============================================================================
