------------------------------ MODULE TokenStores -----------------------------
(***************************************************************************)
(* The credentials and the configuration kept outside the machine:         *)
(* internal/store (postgresstore.go, objectstore.go, gitstore.go).  Each   *)
(* store works on files of a spool directory and copies them to a table, a *)
(* bucket or a git repository, from which the next start fills the spool   *)
(* again, on this machine or on a new one.                                 *)
(*                                                                         *)
(* Three kinds of callers come at any time: the conductor saves and        *)
(* deletes credentials, the watcher asks to persist a file it saw change,  *)
(* and others write files behind the store's back.  A call holds mu from   *)
(* the change of the file to its copy.  A call may fail at each step, what *)
(* failed remotely may have been done all the same, and the process may    *)
(* stop between any two steps.                                             *)
(***************************************************************************)
EXTENDS Naturals, Sequences, FiniteSets, SequencesExt

CONSTANTS
    Auths,        \* the credentials' files
    Config,       \* config.yaml
    Contents,     \* what a file may hold
    Template,     \* the configuration that is copied where there is none
    Callers,      \* goroutines
    Backends,     \* of {"postgres", "object", "git"}
    MaxCalls, MaxWrites, MaxRestarts,  \* calls, writes by others, restarts (bounds)
    None

Absent == "absent"
Empty == "empty"

(* What the constants must be: the module that gives them values assumes it. *)
BoundsAssumption ==
    /\ IsFiniteSet(Auths) /\ Config \notin Auths /\ Template \in Contents /\ None \notin Callers
    /\ {Absent, Empty} \cap Contents = {} /\ Backends \subseteq {"postgres", "object", "git"}
    /\ MaxCalls \in Nat /\ MaxWrites \in Nat /\ MaxRestarts \in Nat

VARIABLES
    backend,
    spool,     \* the files of the spool directory
    head,      \* git: the tree of the local commit
    remote,    \* the rows, the objects, or the tree of the remote branch
    lock,      \* mu
    call,      \* the calls under way
    counts,    \* calls, writes by others and restarts so far
    dirty,     \* files changed since they were last read for their copy, or whose copy failed
    allowed    \* what the copy of a file may be: see Acknowledge

vars == <<backend, spool, head, remote, lock, call, counts, dirty, allowed>>

Files == Auths \cup {Config}
Data == Contents \cup {Absent, Empty}

(* What a call of each store goes through, one after the other.             *)
PostgresSave == <<"lock", "write", "read", "copy">>
PostgresDelete == <<"lock", "remove", "copy">>
PostgresPersistAuth == <<"lock", "read", "copy">>
PostgresPersistConfig == <<"lock", "read", "copy">>

ObjectSave == <<"lock", "write", "read", "copy">>
ObjectDelete == <<"lock", "remove", "copy">>
ObjectPersistAuth == <<"lock", "read", "copy">>
ObjectPersistConfig == <<"lock", "read", "copy">>

GitSave == <<"open", "lock", "write", "commit", "copy">>
GitDelete == <<"open", "lock", "remove", "commit", "copy">>
GitPersistAuth == <<"open", "lock", "commit", "copy">>
GitPersistConfig == <<"open", "lock", "commit", "copy">>

Steps ==
    [postgres |-> [save |-> PostgresSave, delete |-> PostgresDelete,
                   auths |-> PostgresPersistAuth, config |-> PostgresPersistConfig],
     object   |-> [save |-> ObjectSave, delete |-> ObjectDelete,
                   auths |-> ObjectPersistAuth, config |-> ObjectPersistConfig],
     git      |-> [save |-> GitSave, delete |-> GitDelete,
                   auths |-> GitPersistAuth, config |-> GitPersistConfig]]

StepNames == {"open", "lock", "write", "remove", "read", "commit", "copy"}
CallKinds == {"save", "delete", "auths", "config"}
Idle == [steps |-> <<>>, kind |-> "config", file |-> Config, content |-> Absent]

TypeOK ==
    /\ backend \in Backends
    /\ spool \in [Files -> Data] /\ head \in [Files -> Data] /\ remote \in [Files -> Data]
    /\ lock \in Callers \cup {None}
    /\ call \in [Callers -> [steps : Seq(StepNames), kind : CallKinds, file : Files, content : Data]]
    /\ counts \in [calls : 0..MaxCalls, writes : 0..MaxWrites, restarts : 0..MaxRestarts]
    /\ dirty \subseteq Files
    /\ allowed \in [Files -> SUBSET Data]

(* What the copy of a file is: that of an empty file is deleted, but for    *)
(* the row of the configuration.                                            *)
PostgresCopy(f, data) == IF data = Empty /\ f # Config THEN Absent ELSE data
ObjectCopy(data) == IF data = Empty THEN Absent ELSE data

CopyOf(f, data) ==
    CASE backend = "postgres" -> PostgresCopy(f, data)
      [] backend = "object" -> ObjectCopy(data)
      [] backend = "git" -> data

Init ==
    /\ backend \in Backends
    /\ \E stored \in [Files -> {Absent, Template}] :
          /\ stored[Config] = Template
          /\ spool = stored /\ remote = stored
          /\ head = stored
          /\ allowed = [f \in Files |-> {stored[f]}]
    /\ lock = None
    /\ call = [k \in Callers |-> Idle]
    /\ counts = [calls |-> 0, writes |-> 0, restarts |-> 0]
    /\ dirty = {}

-----------------------------------------------------------------------------
At(k, step) == call[k].steps # <<>> /\ Head(call[k].steps) = step
AtRest(k) == call[k].steps = <<>>
Advance(k) == call' = [call EXCEPT ![k].steps = Tail(@)]
Settled(f) == remote[f] = CopyOf(f, spool[f]) /\ (backend = "git" => head[f] = spool[f])

(* Once a call has been acknowledged the copy is what it asked for, or what *)
(* somebody asks for at the same time or has asked for since.               *)
Acknowledge(k, f, data) ==
    allowed' = [allowed EXCEPT ![f] =
        {CopyOf(f, data), CopyOf(f, spool'[f])} \cup
        {CopyOf(f, call[j].content) :
            j \in {j \in Callers \ {k} : ~ AtRest(j) /\ call[j].kind \in {"save", "delete"} /\ call[j].file = f}}]

(* What changed in a file has not reached its copy, and no call is about to *)
(* bring it there: a call that finds the file as it wants it is answered    *)
(* like any other, and promises nothing.                                    *)
Unkept(f) == f \in dirty /\ ~ Settled(f)

AnswerAtOnce(k, f, data) ==
    IF Unkept(f) THEN UNCHANGED <<dirty, allowed>>
    ELSE dirty' = dirty \ {f} /\ Acknowledge(k, f, data)

Begin(k, kind, f, content) ==
    /\ AtRest(k) /\ counts.calls < MaxCalls
    /\ counts' = [counts EXCEPT !.calls = @ + 1]
    /\ call' = [call EXCEPT ![k] = [steps |-> Steps[backend][kind], kind |-> kind,
                                    file |-> f, content |-> content]]
    /\ allowed' = IF kind \in {"save", "delete"}
                  THEN [allowed EXCEPT ![f] = @ \cup {CopyOf(f, content)}] ELSE allowed
    /\ UNCHANGED <<backend, spool, head, remote, lock, dirty>>

Save(k) == \E f \in Auths, content \in Contents : Begin(k, "save", f, content)

Delete(k) == \E f \in Auths : Begin(k, "delete", f, Absent)

(* From the watcher.                                                        *)
PersistAuthFiles(k) == \E f \in Auths : Begin(k, "auths", f, Absent)

PersistConfig(k) == Begin(k, "config", Config, Absent)

(* A disabled credential whose file is gone is not saved; nobody is told.   *)
SaveOfGone(k) ==
    /\ call[k].kind = "save" /\ call[k].steps = Steps[backend].save
    /\ spool[call[k].file] = Absent
    /\ call' = [call EXCEPT ![k].steps = <<>>]
    /\ UNCHANGED <<backend, spool, head, remote, lock, counts, dirty, allowed>>

(* Git first opens the repository and pulls: it has nothing to pull but     *)
(* what was pushed, and where the local commit is another one it stays.     *)
(* A configuration that is not there is not persisted.                      *)
EnsureRepository(k) ==
    /\ At(k, "open")
    /\ \/ ~ (call[k].file = Config /\ spool[Config] = Absent) /\ Advance(k)
       \/ call' = [call EXCEPT ![k].steps = <<>>]
    /\ UNCHANGED <<backend, spool, head, remote, lock, counts, dirty, allowed>>

LockAnyway(k) ==  \* mutant: calls do not wait for each other
    /\ At(k, "lock")
    /\ lock' = k
    /\ Advance(k)
    /\ UNCHANGED <<backend, spool, head, remote, counts, dirty, allowed>>

Lock(k) ==
    /\ At(k, "lock") /\ lock = None
    /\ lock' = k
    /\ Advance(k)
    /\ UNCHANGED <<backend, spool, head, remote, counts, dirty, allowed>>

Unlock(k) == lock' = None /\ call' = [call EXCEPT ![k].steps = <<>>]

-----------------------------------------------------------------------------
(* Save under the lock: the file is written aside and renamed.              *)
WriteFile(k) ==
    /\ At(k, "write")
    /\ spool' = [spool EXCEPT ![call[k].file] = call[k].content]
    /\ dirty' = dirty \cup {call[k].file}
    /\ Advance(k)
    /\ UNCHANGED <<backend, head, remote, lock, counts, allowed>>

(* Metadata that the file holds already is taken for saved (jsonEqual).     *)
SaveUnchanged(k) ==
    LET f == call[k].file IN
    /\ At(k, "write")
    /\ spool[f] = call[k].content
    /\ Unlock(k)
    /\ UNCHANGED spool /\ AnswerAtOnce(k, f, call[k].content)
    /\ UNCHANGED <<backend, head, remote, counts>>

(* Delete under the lock.  The row or the object goes even if there was no  *)
(* file; git does not look for what is committed.                           *)
RemoveFile(k) ==
    LET f == call[k].file IN
    /\ At(k, "remove")
    /\ spool' = [spool EXCEPT ![f] = Absent]
    /\ IF backend = "git" /\ spool[f] = Absent
       THEN Unlock(k) /\ AnswerAtOnce(k, f, Absent)
       ELSE /\ dirty' = IF backend = "git" THEN dirty \cup {f} ELSE dirty \ {f}
            /\ Advance(k)
            /\ UNCHANGED <<lock, allowed>>
    /\ UNCHANGED <<backend, head, remote, counts>>

(* The file could not be changed, or not be read.                           *)
FileFails(k) ==
    /\ \E step \in {"write", "remove", "read", "commit"} : At(k, step)
    /\ Unlock(k)
    /\ UNCHANGED <<backend, spool, head, remote, counts, dirty, allowed>>

(* The file is read for its copy: as it is now, whoever wrote it.  Only a   *)
(* row to be saved needs it to be there.                                    *)
ReadFile(k) ==
    LET f == call[k].file IN
    /\ At(k, "read")
    /\ backend = "postgres" /\ call[k].kind = "save" => spool[f] # Absent
    /\ call' = [call EXCEPT ![k].steps = Tail(@), ![k].content = CopyOf(f, spool[f])]
    /\ dirty' = dirty \ {f}
    /\ allowed' = [allowed EXCEPT ![f] = @ \cup {CopyOf(f, spool[f])}]
    /\ UNCHANGED <<backend, spool, head, remote, lock, counts>>

(* Git stages the file and commits; with nothing staged there is nothing to *)
(* push either.                                                             *)
Commit(k) ==
    LET f == call[k].file IN
    /\ At(k, "commit")
    /\ head' = [head EXCEPT ![f] = spool[f]]
    /\ UNCHANGED spool
    /\ IF head[f] = spool[f]
       THEN Unlock(k) /\ AnswerAtOnce(k, f, spool[f])
       ELSE /\ call' = [call EXCEPT ![k].steps = Tail(@), ![k].content = spool[f]]
            /\ dirty' = dirty \ {f}
            /\ UNCHANGED <<lock, allowed>>
    /\ UNCHANGED <<backend, remote, counts>>

(* The statement, the upload or the push.                                   *)
Copied(k) == IF backend = "git" THEN head ELSE [remote EXCEPT ![call[k].file] = call[k].content]

Copy(k) ==
    /\ At(k, "copy")
    /\ remote' = Copied(k)
    /\ Unlock(k)
    /\ UNCHANGED spool /\ Acknowledge(k, call[k].file, call[k].content)
    /\ UNCHANGED <<backend, head, counts, dirty>>

(* A failure, or an answer that does not come in time.                      *)
CopyFails(k) ==
    /\ At(k, "copy")
    /\ remote' \in {remote, Copied(k)}
    /\ Unlock(k)
    /\ dirty' = dirty \cup {call[k].file}
    /\ UNCHANGED <<backend, spool, head, counts, allowed>>

-----------------------------------------------------------------------------
(* Others write and remove files: uploads, editors.                         *)
WriteBehind(f, data) ==
    /\ counts.writes < MaxWrites /\ spool[f] # data
    /\ counts' = [counts EXCEPT !.writes = @ + 1]
    /\ spool' = [spool EXCEPT ![f] = data]
    /\ dirty' = dirty \cup {f}
    /\ allowed' = [allowed EXCEPT ![f] = @ \cup {CopyOf(f, data)}]
    /\ UNCHANGED <<backend, head, remote, lock, call>>

-----------------------------------------------------------------------------
SyncAuthWithoutReset(kept, f) ==  \* mutant: the directory is not emptied first
    IF remote[f] # Absent THEN remote[f] ELSE kept[f]

(* The start: what is in the spool then, if "kept" was in it.  Credentials: *)
SyncAuthFromDatabase(kept, f) == remote[f]

SyncAuthFromBucket(kept, f) == IF remote[f] # Absent THEN remote[f] ELSE kept[f]

(* The configuration, from the template where there is none.                *)
SyncConfig(kept) ==
    IF remote[Config] # Absent THEN remote[Config]
    ELSE IF kept[Config] # Absent THEN kept[Config] ELSE Template

(* Git clones a new spool and opens an old one, whose files stay.           *)
OpenRepository(kept, f) ==
    IF kept[f] = Absent /\ f = Config THEN Template ELSE kept[f]

Bootstrapped(kept) ==
    [f \in Files |->
        IF backend = "git" THEN OpenRepository(kept, f)
        ELSE IF f = Config THEN SyncConfig(kept)
        ELSE IF backend = "postgres" THEN SyncAuthFromDatabase(kept, f)
        ELSE SyncAuthFromBucket(kept, f)]

(* The process stops; it starts again with its spool or with a new one.     *)
Restart ==
    /\ counts.restarts < MaxRestarts
    /\ counts' = [counts EXCEPT !.restarts = @ + 1]
    /\ call' = [k \in Callers |-> Idle] /\ lock' = None
    /\ \E kept \in {spool, IF backend = "git" THEN remote ELSE [f \in Files |-> Absent]} :
          LET seeded == IF backend = "git" THEN kept[Config] = Absent ELSE remote[Config] = Absent
              copied == IF seeded THEN {Config} ELSE {}
              behind == {f \in Files : \E k \in Callers : call[k].file = f /\ At(k, "copy")}
          IN /\ spool' = Bootstrapped(kept)
             /\ head' = IF backend # "git" THEN head
                        ELSE [f \in Files |-> IF f \in copied THEN spool'[f]
                                              ELSE IF kept = spool THEN head[f] ELSE remote[f]]
             /\ remote' = IF backend = "git" /\ seeded THEN head'
                          ELSE [f \in Files |-> IF f \in copied THEN CopyOf(f, spool'[f]) ELSE remote[f]]
             /\ allowed' = [f \in Files |-> IF f \in copied THEN allowed[f] \cup {remote'[f]} ELSE allowed[f]]
             /\ dirty' = {f \in (dirty \cup behind) \ copied :
                             CASE backend = "postgres" -> FALSE
                               [] backend = "object" -> remote[f] = Absent
                               [] backend = "git" -> kept = spool}
    /\ UNCHANGED backend

-----------------------------------------------------------------------------
Next ==
    \/ \E k \in Callers :
          \/ Save(k) \/ Delete(k) \/ PersistAuthFiles(k) \/ PersistConfig(k)
          \/ SaveOfGone(k) \/ EnsureRepository(k) \/ Lock(k)
          \/ WriteFile(k) \/ SaveUnchanged(k) \/ RemoveFile(k) \/ FileFails(k)
          \/ ReadFile(k) \/ Commit(k) \/ Copy(k) \/ CopyFails(k)
    \/ \E f \in Files, data \in Data : WriteBehind(f, data)
    \/ Restart

Spec == Init /\ [][Next]_vars

-----------------------------------------------------------------------------
(* What a call was told is saved or deleted is so in the copy, and so after *)
(* any restart, unless another call or a write came later or went along     *)
(* with it: no failure, no crash and no late call brings back anything      *)
(* older.  The one answer that promises nothing is that of a call which     *)
(* finds the file as it wants it although the file's last change has not    *)
(* reached the copy: the code answers "saved" to the repeated call after a  *)
(* failed one (postgresstore.go 223-226) and does not copy.                 *)
AcknowledgedIsKept == \A f \in Files : remote[f] \in allowed[f]

(* At rest a file and its copy agree, unless the last change of the file    *)
(* was not followed by a call, or the last call that copied it failed.      *)
CopiesAgree ==
    (\A k \in Callers : AtRest(k)) => \A f \in Files \ dirty : Settled(f)
=============================================================================
