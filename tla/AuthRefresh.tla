---------------------------- MODULE AuthRefresh -----------------------------
(***************************************************************************)
(* Who writes a credential, and over what.  sdk/cliproxy/auth/conductor.go *)
(* refreshes OAuth tokens in the background; the management API edits      *)
(* credentials; every Manager.Update saves the auth file, and the watcher  *)
(* sends a changed file back to the manager (sdk/cliproxy/service.go).     *)
(*                                                                         *)
(* All of them read a clone, work without the lock, and replace the whole  *)
(* entry with what they made of the clone.  One action is one critical     *)
(* section of Manager.mu, one answer of a provider or one access to a file.*)
(*                                                                         *)
(* Token k is the k-th the provider issued; "wait" is the time left until  *)
(* NextRefreshAfter.  Clones hold times too, and Tick ages them as well.   *)
(***************************************************************************)
EXTENDS Naturals, FiniteSets, Functions

CONSTANTS
    Creds,
    Refreshers,  \* refresh goroutines alive at one time (bound)
    Operators,   \* management requests at one time (bound)
    Edits,       \* what they do: "enable", "disable", "fields", "renew"
    Slots,       \* refreshMaxConcurrency, capacity of refreshSemaphore
    PendingWait, \* refreshPendingBackoff
    FailureWait, \* refreshFailureBackoff
    MaxToken,    \* tokens the provider issues (bound)
    Results,     \* outcomes MarkResult records: "success", "failure"
    Watching,    \* the file watcher runs
    Restarts,    \* the process may stop or die, and start again
    SavesFail,   \* a save may fail; the caller ignores the error
    Prompt,      \* refreshes end within PendingWait, and saves and file
                 \* changes are through within the life of a token
    Apart,       \* two updates of one credential never overlap
    None

Tokens == 0..MaxToken
Marks == {"none", "clear", "failed"}   \* ModelStates: empty, clear, blocking
Auth == [token : Tokens, disabled : BOOLEAN, marks : Marks, wait : Nat]
Content == [token : Tokens, disabled : BOOLEAN]

ASSUME CredsAssumption == IsFiniteSet(Creds)
ASSUME BoundsAssumption ==
    /\ Slots \in Nat \ {0} /\ PendingWait \in Nat \ {0}
    /\ FailureWait \in Nat /\ FailureWait >= PendingWait
    /\ MaxToken \in Nat
ASSUME ChoicesAssumption ==
    /\ Edits \subseteq {"enable", "disable", "fields", "renew"}
    /\ Results \subseteq {"success", "failure"}
    /\ {Watching, Restarts, SavesFail, Prompt, Apart} \subseteq BOOLEAN
ASSUME NoneAssumption == None \notin Auth /\ None \notin Content /\ None \notin Creds

VARIABLES
    auths,   \* Manager.auths
    files,   \* the auth files
    due,     \* what the current pass of checkRefreshes has still to visit
    jobs,    \* refreshAuth goroutines
    edits,   \* management requests
    sync,    \* the watcher and the consumer of its queue, per file
    issued,  \* the newest token the provider gave out (environment)
    lapsed,  \* tokens below this one are close to their expiry (environment)
    stopped, \* StopAutoRefresh has cancelled the loop's context
    missed   \* credentials an answer for which was never saved (history)

vars == <<auths, files, due, jobs, edits, sync, issued, lapsed, stopped, missed>>

Job == [pc : {"idle", "queued", "calling", "answered", "saving"},
        cred : Creds \cup {None}, copy : Auth \cup {None}]
Edit == [pc : {"idle", "calling", "holding", "saving"}, kind : Edits \cup {None},
         cred : Creds \cup {None}, copy : Auth \cup {None}]
Sync == [seen : Content \cup {None}, next : Content \cup {None},
         applying : Auth \cup {None}]

(* Types, and no entry waits longer than the longest backoff. *)
TypeOK ==
    /\ auths \in [Creds -> Auth \cup {None}]
    /\ \A c \in Creds : auths[c] # None => auths[c].wait <= FailureWait
    /\ files \in [Creds -> Content \cup {None}]
    /\ due \subseteq Creds
    /\ jobs \in [Refreshers -> Job]
    /\ edits \in [Operators -> Edit]
    /\ sync \in [Creds -> Sync]
    /\ issued \in [Creds -> Tokens]
    /\ lapsed \in [Creds -> 0..(MaxToken + 1)]
    /\ stopped \in BOOLEAN
    /\ missed \subseteq Creds

IdleJob == [pc |-> "idle", cred |-> None, copy |-> None]
IdleEdit == [pc |-> "idle", kind |-> None, cred |-> None, copy |-> None]
NewAuth(f) == [token |-> f.token, disabled |-> f.disabled, marks |-> "none", wait |-> 0]
ContentOf(a) == [token |-> a.token, disabled |-> a.disabled]

(* Manager.Load reads the files; the watcher starts with the same content. *)
Loaded(fs) == [c \in Creds |-> IF fs[c] = None THEN None ELSE NewAuth(fs[c])]
Watched(fs) == [c \in Creds |-> [seen |-> fs[c], next |-> fs[c], applying |-> None]]
Unwatched == [c \in Creds |-> [seen |-> None, next |-> None, applying |-> None]]
Started(fs) == IF Watching THEN Watched(fs) ELSE Unwatched

Init ==
    /\ files = [c \in Creds |-> [token |-> 0, disabled |-> FALSE]]
    /\ auths = Loaded(files)
    /\ due = {}
    /\ jobs = [j \in Refreshers |-> IdleJob]
    /\ edits = [e \in Operators |-> IdleEdit]
    /\ sync = Started(files)
    /\ issued = [c \in Creds |-> 0]
    /\ lapsed = [c \in Creds |-> 0]
    /\ stopped = FALSE
    /\ missed = {}

-----------------------------------------------------------------------------
Refreshing(c) == {j \in Refreshers : jobs[j].cred = c}
Editing(c) == {e \in Operators : edits[e].cred = c}
Renewing(c) == {e \in Editing(c) : edits[e].kind = "renew"}

(* Updates that overlap may undo each other (see DisabledStays): two edits, *)
(* or an edit and a refresh, hold clones, or a new token is asked for while *)
(* the watcher's update with an older one is on its way.                    *)
Overlap(c) ==
    \/ Cardinality(Editing(c)) > 1
    \/ Refreshing(c) # {} /\ Editing(c) # {}
    \/ /\ Refreshing(c) # {} \/ Renewing(c) # {}
       /\ sync[c].next # None \/ sync[c].applying # None

KeptApart == Apart => \A c \in Creds : ~Overlap(c)'

-----------------------------------------------------------------------------
(* Manager.Update under the lock. *)
Updated(old, new) ==
    IF new.marks = "none" /\ old # None THEN [new EXCEPT !.marks = old.marks] ELSE new

Replace(c, a) == auths' = [auths EXCEPT ![c] = Updated(@, a)]

(* persist, outside the lock: FileTokenStore.Save. *)
Save(c, a) ==
    files' = IF a.disabled /\ files[c] = None THEN files
             ELSE [files EXCEPT ![c] = ContentOf(a)]

SaveOrFail(c, a) ==
    \/ Save(c, a) /\ UNCHANGED missed
    \/ SavesFail /\ missed' = missed \cup {c} /\ UNCHANGED files

(* shouldRefresh, for a token whose lead time or interval has come. *)
Lapsed(c) == auths[c].token < lapsed[c]
ShouldRefresh(c) ==
    auths[c] # None /\ ~auths[c].disabled /\ auths[c].wait = 0 /\ Lapsed(c)

(* One pass of the ticker over a snapshot. *)
CheckRefreshes ==
    /\ due = {} /\ ~stopped
    /\ \E c \in Creds : ShouldRefresh(c)
    /\ due' = {c \in Creds : ShouldRefresh(c)}
    /\ UNCHANGED <<auths, files, jobs, edits, sync, issued, lapsed, missed, stopped>>

(* Mutant: the entry is not marked before its goroutine runs. *)
MarkRefreshUnmarked(j, c) ==
    /\ c \in due /\ jobs[j].pc = "idle"
    /\ due' = due \ {c}
    /\ ~auths[c].disabled /\ auths[c].wait = 0
    /\ jobs' = [jobs EXCEPT ![j] = [IdleJob EXCEPT !.pc = "queued", !.cred = c]]
    /\ UNCHANGED <<auths, files, edits, sync, issued, lapsed, missed, stopped>>
    /\ KeptApart

(* Mutant: with every slot taken the refresh is dropped, not queued. *)
MarkRefreshDropping(j, c) ==
    /\ c \in due /\ jobs[j].pc = "idle"
    /\ due' = due \ {c}
    /\ IF auths[c].disabled \/ auths[c].wait > 0 THEN UNCHANGED <<auths, jobs>>
       ELSE /\ auths' = [auths EXCEPT ![c].wait = PendingWait]
            /\ IF Cardinality({k \in Refreshers : jobs[k].pc # "idle"}) >= Slots
               THEN UNCHANGED jobs
               ELSE jobs' = [jobs EXCEPT ![j] =
                                 [IdleJob EXCEPT !.pc = "queued", !.cred = c]]
    /\ UNCHANGED <<files, edits, sync, issued, lapsed, missed, stopped>>
    /\ KeptApart

(* Mutant: the snapshot's verdict is not checked again under the lock. *)
MarkRefreshUnchecked(j, c) ==
    /\ c \in due /\ jobs[j].pc = "idle"
    /\ due' = due \ {c}
    /\ auths' = [auths EXCEPT ![c].wait = PendingWait]
    /\ jobs' = [jobs EXCEPT ![j] = [IdleJob EXCEPT !.pc = "queued", !.cred = c]]
    /\ UNCHANGED <<files, edits, sync, issued, lapsed, missed, stopped>>
    /\ KeptApart

(* markRefreshPending, and the goroutine it allows. *)
MarkRefreshPending(j, c) ==
    /\ c \in due /\ jobs[j].pc = "idle"
    /\ due' = due \ {c}
    /\ IF auths[c].disabled \/ auths[c].wait > 0 THEN UNCHANGED <<auths, jobs>>
       ELSE /\ auths' = [auths EXCEPT ![c].wait = PendingWait]
            /\ jobs' = [jobs EXCEPT ![j] = [IdleJob EXCEPT !.pc = "queued", !.cred = c]]
    /\ UNCHANGED <<files, edits, sync, issued, lapsed, missed, stopped>>
    /\ KeptApart

(* refreshAuthWithLimit takes a slot, refreshAuth a clone. *)
Running(j) == jobs[j].pc \notin {"idle", "queued"}

TakeSlot(j) ==
    /\ jobs[j].pc = "queued"
    /\ Cardinality({k \in Refreshers : Running(k)}) < Slots
    /\ jobs' = [jobs EXCEPT ![j].pc = "calling", ![j].copy = auths[jobs[j].cred]]
    /\ UNCHANGED <<auths, files, due, edits, sync, issued, lapsed, missed, stopped>>

(* exec.Refresh returns a new token. *)
RefreshSucceeds(j) ==
    LET c == jobs[j].cred IN
    /\ jobs[j].pc = "calling" /\ issued[c] < MaxToken
    /\ issued' = [issued EXCEPT ![c] = @ + 1]
    /\ jobs' = [jobs EXCEPT ![j].pc = "answered",
                            ![j].copy = [@ EXCEPT !.token = issued[c] + 1, !.wait = 0]]
    /\ UNCHANGED <<auths, files, due, edits, sync, lapsed, missed, stopped>>

(* It fails: the backoff goes to the entry as it is now. *)
RefreshFails(j) ==
    LET c == jobs[j].cred IN
    /\ jobs[j].pc = "calling"
    /\ auths' = [auths EXCEPT ![c].wait = FailureWait]
    /\ jobs' = [jobs EXCEPT ![j] = IdleJob]
    /\ UNCHANGED <<files, due, edits, sync, issued, lapsed, missed, stopped>>

(* The new tokens replace the entry, the rest of the clone with them. *)
StoreRefreshed(j) ==
    /\ jobs[j].pc = "answered"
    /\ Replace(jobs[j].cred, jobs[j].copy)
    /\ jobs' = [jobs EXCEPT ![j].pc = "saving"]
    /\ UNCHANGED <<files, due, edits, sync, issued, lapsed, missed, stopped>>

SaveRefreshed(j) ==
    /\ jobs[j].pc = "saving"
    /\ SaveOrFail(jobs[j].cred, jobs[j].copy)
    /\ jobs' = [jobs EXCEPT ![j] = IdleJob]
    /\ UNCHANGED <<auths, due, edits, sync, issued, lapsed, stopped>>

-----------------------------------------------------------------------------
(* Management requests: GetByID, change the clone, Update. *)
EditedCopy(a, kind) ==
    CASE kind = "disable" -> [a EXCEPT !.disabled = TRUE]
      [] kind = "enable"  -> [a EXCEPT !.disabled = FALSE]
      [] OTHER            -> a

BeginEdit(e, c, kind) ==
    /\ edits[e].pc = "idle" /\ auths[c] # None
    /\ edits' = [edits EXCEPT ![e] =
           [pc |-> IF kind = "renew" THEN "calling" ELSE "holding",
            kind |-> kind, cred |-> c, copy |-> EditedCopy(auths[c], kind)]]
    /\ UNCHANGED <<auths, files, due, jobs, sync, issued, lapsed, missed, stopped>>
    /\ KeptApart

(* refreshAntigravityOAuthAccessToken leaves NextRefreshAfter alone. *)
RenewAnswers(e) ==
    LET c == edits[e].cred IN
    /\ edits[e].pc = "calling"
    /\ \/ /\ issued[c] < MaxToken
          /\ issued' = [issued EXCEPT ![c] = @ + 1]
          /\ edits' = [edits EXCEPT ![e].pc = "holding",
                                    ![e].copy = [@ EXCEPT !.token = issued[c] + 1]]
       \/ edits' = [edits EXCEPT ![e] = IdleEdit] /\ UNCHANGED issued
    /\ UNCHANGED <<auths, files, due, jobs, sync, lapsed, missed, stopped>>

StoreEdit(e) ==
    /\ edits[e].pc = "holding"
    /\ Replace(edits[e].cred, edits[e].copy)
    /\ edits' = [edits EXCEPT ![e].pc = "saving"]
    /\ UNCHANGED <<files, due, jobs, sync, issued, lapsed, missed, stopped>>

SaveEdit(e) ==
    /\ edits[e].pc = "saving"
    /\ SaveOrFail(edits[e].cred, edits[e].copy)
    /\ edits' = [edits EXCEPT ![e] = IdleEdit]
    /\ UNCHANGED <<auths, due, jobs, sync, issued, lapsed, stopped>>

(* MarkResult changes the entry in place and saves it under the lock. *)
MarkResult(c, result) ==
    LET a == [auths[c] EXCEPT !.marks = IF result = "failure" THEN "failed" ELSE "clear"]
    IN
    /\ auths[c] # None
    /\ auths' = [auths EXCEPT ![c] = a]
    /\ SaveOrFail(c, a)
    /\ UNCHANGED <<due, jobs, edits, sync, issued, lapsed, stopped>>

-----------------------------------------------------------------------------
(* Mutant: an update that waits in the queue is not replaced by a newer one. *)
NoticeKeepsPending(c) ==
    /\ Watching /\ files[c] # None /\ files[c] # sync[c].seen
    /\ sync' = [sync EXCEPT ![c].seen = files[c],
                            ![c].next = IF @ = None THEN files[c] ELSE @]
    /\ UNCHANGED <<auths, files, due, jobs, edits, issued, lapsed, missed, stopped>>
    /\ KeptApart

(* The watcher compares the file's hash with the last one it saw. *)
Notice(c) ==
    /\ Watching /\ files[c] # None /\ files[c] # sync[c].seen
    /\ sync' = [sync EXCEPT ![c].seen = files[c], ![c].next = files[c]]
    /\ UNCHANGED <<auths, files, due, jobs, edits, issued, lapsed, missed, stopped>>
    /\ KeptApart

(* applyCoreAuthAddOrUpdate reads what it keeps ... *)
BeginApply(c) ==
    LET f == sync[c].next
        old == auths[c]
    IN
    /\ f # None /\ sync[c].applying = None
    /\ sync' = [sync EXCEPT ![c].next = None,
                    ![c].applying =
                        IF old = None THEN NewAuth(f)
                        ELSE [NewAuth(f) EXCEPT !.wait = old.wait, !.marks = old.marks]]
    /\ UNCHANGED <<auths, files, due, jobs, edits, issued, lapsed, missed, stopped>>

(* ... and updates the manager, without a save. *)
EndApply(c) ==
    /\ sync[c].applying # None
    /\ Replace(c, sync[c].applying)
    /\ sync' = [sync EXCEPT ![c].applying = None]
    /\ UNCHANGED <<files, due, jobs, edits, issued, lapsed, missed, stopped>>

-----------------------------------------------------------------------------
Settled(c) == sync[c].next = None /\ sync[c].applying = None
              /\ (Watching => sync[c].seen = files[c])

(* Somebody is about to write the entry or its file. *)
Unsaved(c) ==
    \/ \E j \in Refreshers : jobs[j].cred = c /\ jobs[j].pc \in {"answered", "saving"}
    \/ \E e \in Operators : edits[e].cred = c /\ edits[e].pc \in {"holding", "saving"}

(* Nothing under way will still change the entry or the file. *)
Quiet(c) == ~Unsaved(c) /\ Settled(c)

(* A token nears its expiry. *)
Lapse(c) ==
    /\ lapsed[c] <= issued[c]
    /\ Prompt => Quiet(c)
    /\ lapsed' = [lapsed EXCEPT ![c] = issued[c] + 1]
    /\ UNCHANGED <<auths, files, due, jobs, edits, sync, issued, missed, stopped>>

(* Mutant: the time to go runs on past the moment it was set to. *)
AgedPast(a) == IF a = None THEN a ELSE [a EXCEPT !.wait = @ - 1]

Aged(a) == IF a = None \/ a.wait = 0 THEN a ELSE [a EXCEPT !.wait = @ - 1]

(* Time passes; a pass of checkRefreshes takes less than a tick. *)
Tick ==
    /\ due = {}
    /\ Prompt => \A j \in Refreshers :
                     jobs[j].pc # "idle" => auths[jobs[j].cred].wait > 1
    /\ auths' = [c \in Creds |-> Aged(auths[c])]
    /\ jobs' = [j \in Refreshers |-> [jobs[j] EXCEPT !.copy = Aged(@)]]
    /\ edits' = [e \in Operators |-> [edits[e] EXCEPT !.copy = Aged(@)]]
    /\ sync' = [c \in Creds |-> [sync[c] EXCEPT !.applying = Aged(@)]]
    /\ UNCHANGED <<files, due, issued, lapsed, missed, stopped>>
    /\ vars' # vars

Saving == {jobs[j].cred : j \in {k \in Refreshers : jobs[k].pc = "saving"}}
          \cup {edits[e].cred : e \in {k \in Operators : edits[k].pc = "saving"}}

(* The process dies and starts again.  A save that was cut short leaves an  *)
(* empty file, which is read as no credential.                              *)
Restart ==
    /\ Restarts
    /\ \E torn \in SUBSET Saving :
           files' = [c \in Creds |-> IF c \in torn THEN None ELSE files[c]]
    /\ auths' = Loaded(files')
    /\ due' = {}
    /\ jobs' = [j \in Refreshers |-> IdleJob]
    /\ edits' = [e \in Operators |-> IdleEdit]
    /\ sync' = Started(files')
    /\ missed' = missed \cup {c \in Creds : Unsaved(c)}
    /\ stopped' = FALSE
    /\ UNCHANGED <<issued, lapsed>>

(* Shutdown cancels the loop and what it started; answers already under way *)
(* may still arrive.                                                        *)
StopAutoRefresh ==
    /\ Restarts /\ ~stopped
    /\ stopped' = TRUE
    /\ UNCHANGED <<auths, files, due, jobs, edits, sync, issued, lapsed, missed>>

RefreshCancelled(j) ==
    /\ stopped /\ jobs[j].pc \in {"queued", "calling"}
    /\ jobs' = [jobs EXCEPT ![j] = IdleJob]
    /\ UNCHANGED <<auths, files, due, edits, sync, issued, lapsed, missed, stopped>>

RefreshStep(j) ==
    \/ \E c \in Creds : MarkRefreshPending(j, c)
    \/ TakeSlot(j)
    \/ RefreshSucceeds(j) \/ RefreshFails(j) \/ RefreshCancelled(j)
    \/ StoreRefreshed(j) \/ SaveRefreshed(j)

EditStep(e) ==
    \/ \E c \in Creds, kind \in Edits : BeginEdit(e, c, kind)
    \/ RenewAnswers(e) \/ StoreEdit(e) \/ SaveEdit(e)

SyncStep(c) == Notice(c) \/ BeginApply(c) \/ EndApply(c)

Next ==
    \/ CheckRefreshes
    \/ \E j \in Refreshers : RefreshStep(j)
    \/ \E e \in Operators : EditStep(e)
    \/ \E c \in Creds, result \in Results : MarkResult(c, result)
    \/ \E c \in Creds : SyncStep(c) \/ Lapse(c)
    \/ Tick \/ StopAutoRefresh \/ Restart

Spec == Init /\ [][Next]_vars

(* The ticker goes on, goroutines run, providers answer; a goroutine blocked *)
(* on the semaphore gets a slot, for Go serves the waiting senders in order. *)
Fairness ==
    /\ WF_vars(CheckRefreshes) /\ WF_vars(Tick)
    /\ \A c \in Creds : WF_vars(\E j \in Refreshers : MarkRefreshPending(j, c))
    /\ \A j \in Refreshers :
           /\ SF_vars(TakeSlot(j))
           /\ WF_vars(RefreshSucceeds(j) \/ RefreshFails(j))
           /\ WF_vars(StoreRefreshed(j) \/ SaveRefreshed(j))

FairSpec == Spec /\ Fairness

-----------------------------------------------------------------------------
(* While refreshes end within their pending wait and updates do not overlap *)
(* (Prompt, Apart), the only way to lose a token the provider issued is a   *)
(* failed save or a crash between the answer and the end of the save: else, *)
(* once things are quiet, both the manager and the file hold the newest     *)
(* token (refreshAuth, markRefreshPending, persist and the watcher).        *)
NewestTokenKept ==
    \A c \in Creds \ missed :
        Quiet(c) =>
            /\ auths[c] # None /\ auths[c].token = issued[c]
            /\ files[c] # None /\ files[c].token = issued[c]

(* Under the same conditions a credential has one refresh at a time, across *)
(* crashes too: what markRefreshPending is for.  Two would spend one        *)
(* rotating refresh token twice.                                            *)
OneRefreshAtATime ==
    \A c \in Creds : Cardinality(Refreshing(c)) <= 1

(* Once things are quiet the manager and the file agree, whatever stale     *)
(* updates of the watcher arrived in between: they are not saved because    *)
(* "the file on disk is already the source of truth" (persist_policy.go     *)
(* 8-9).  It holds while no two writers overlap and every save succeeds.    *)
FileIsTruth ==
    \A c \in Creds \ missed :
        Quiet(c) /\ files[c] # None => ContentOf(auths[c]) = files[c]

(* Under the same conditions whoever asks the provider for a new token, a   *)
(* refresh or a management request, presents the newest one it issued, and  *)
(* a refresh none of a credential an operator has disabled: the pass chose  *)
(* the credential from a snapshot (checkRefreshes), the job may have waited *)
(* for a slot since (refreshAuthWithLimit), and what it presents is from a  *)
(* clone of the entry, which the watcher may have put back.  A rotated      *)
(* token that is presented again ends the sign-in.                          *)
NewestTokenSpent ==
    \A c \in Creds \ missed :
        /\ \A j \in Refreshing(c) : jobs[j].pc = "calling" =>
               jobs[j].copy.token = issued[c] /\ ~auths[c].disabled
        /\ \A e \in Renewing(c) : edits[e].pc = "calling" =>
               edits[e].copy.token = issued[c]

(* A credential that is enabled and close to expiry is tried again and      *)
(* again, whatever failed before and however many wait for a slot           *)
(* (checkRefreshes, refreshAuthWithLimit).                                  *)
AlwaysTriedAgain ==
    \A c \in Creds :
        []<>(\/ stopped \/ auths[c].disabled \/ ~Lapsed(c)
             \/ \E j \in Refreshers : jobs[j].cred = c /\ jobs[j].pc = "calling")

(* Only an operator enables what an operator disabled: types.go 65,         *)
(* auth_files.go 776.  A refresh that read the entry before the edit        *)
(* replaces it by its own clone.                                            *)
DisabledStays ==
    [][\A c \in Creds :
           auths[c].disabled /\ ~auths'[c].disabled =>
               \E e \in Operators :
                   edits[e].cred = c /\ edits[e].kind = "enable" /\ StoreEdit(e)]_vars
=============================================================================
