------------------------ MODULE ProviderCredentials ------------------------
(***************************************************************************)
(* The credentials of the model providers and the OAuth manager that keeps *)
(* the OpenAI one fresh (server/codex_oauth.go, the auth handlers of       *)
(* server/handlers_providers.go, GetAuth and SetAuth of the stores).       *)
(*                                                                         *)
(* All credentials are one row, read and written as a whole.  The OAuth    *)
(* manager reads, calls the issuer and writes under its mutex; the         *)
(* handlers of the settings read and write the row without it.  The model  *)
(* keeps the OpenAI entry of the row: a settings request for any other     *)
(* provider writes this entry back as it read it.                          *)
(*                                                                         *)
(* Refresh tokens are numbers in the order the issuer hands them out.      *)
(* `disturbed` and `reused` are history: whether a settings request has    *)
(* overwritten what it had not read, or a rotated token never reached the  *)
(* row; and whether a token the issuer had already replaced was sent to    *)
(* it.                                                                     *)
(***************************************************************************)
EXTENDS Naturals

CONSTANTS Attempts,     \* OAuth attempts that can be started
          Refreshers,   \* model calls that can need a fresh token
          Writers,      \* settings requests
          MaxTokens     \* bound on the refresh tokens handed out

VARIABLES stored,       \* the OpenAI entry of the auth row
          attempt,      \* m.attempts: [status, worker, held] of each attempt
          refresher,    \* where a refresh is: [at, read]
          writer,       \* a settings request: [at, read]
          mu,           \* the holder of m.mu, or "free"
          closing,      \* m.closing and the cancelled root context
          issued,       \* refresh tokens handed out by the issuer
          spent,        \* those it has replaced
          disturbed, reused

vars == <<stored, attempt, refresher, writer, mu, closing, issued, spent,
          disturbed, reused>>

NoEntry == [type |-> "none", refresh |-> 0, unexpired |-> FALSE, by |-> "nobody"]
Key     == [NoEntry EXCEPT !.type = "api_key"]
OAuth(t, who) == [type |-> "oauth", refresh |-> t, unexpired |-> TRUE, by |-> who]

Init ==
  /\ stored = NoEntry
  /\ attempt = [a \in Attempts |-> [status |-> "none", worker |-> "none", held |-> 0]]
  /\ refresher = [r \in Refreshers |-> [at |-> "idle", read |-> NoEntry]]
  /\ writer = [w \in Writers |-> [at |-> "idle", read |-> NoEntry]]
  /\ mu = "free" /\ closing = FALSE
  /\ issued = 0 /\ spent = {}
  /\ disturbed = FALSE /\ reused = FALSE

issuer  == <<issued, spent>>
history == <<disturbed, reused>>

-----------------------------------------------------------------------------
(* Attempts *)

Pending == {a \in Attempts : attempt[a].status = "pending"}

(* start: refused while another attempt is pending *)
Start(a) ==
  /\ mu = "free" /\ ~closing
  /\ attempt[a].status = "none" /\ Pending = {}
  /\ attempt' = [attempt EXCEPT ![a].status = "pending", ![a].worker = "opening"]
  /\ UNCHANGED <<stored, refresher, writer, mu, closing, issuer, history>>

(* finish: only a pending attempt changes; the worker is over *)
finish(a, status) ==
  attempt' = [attempt EXCEPT ![a].worker = "none",
                             ![a].status = IF @ = "pending" THEN status ELSE @]

(* startBrowser and startDevice: the listener is open or the device code   *)
(* has come; startWorker refuses once the manager is closing               *)
Opened(a) ==
  /\ attempt[a].worker = "opening"
  /\ \/ ~closing /\ attempt' = [attempt EXCEPT ![a].worker = "waiting"]
     \/ mu = "free" /\ finish(a, "failed")
  /\ UNCHANGED <<stored, refresher, writer, mu, closing, issuer, history>>

(* the callback, or an answered poll, carries a code to exchange *)
CodeArrives(a) ==
  /\ attempt[a].worker = "waiting"
  /\ attempt' = [attempt EXCEPT ![a].worker = "exchanging"]
  /\ UNCHANGED <<stored, refresher, writer, mu, closing, issuer, history>>

(* a refused callback, a failed poll or exchange, the five minutes over, a *)
(* cancelled context: what is still pending has failed                     *)
AttemptFails(a) ==
  /\ attempt[a].worker \in {"waiting", "exchanging"} /\ mu = "free"
  /\ finish(a, "failed")
  /\ UNCHANGED <<stored, refresher, writer, mu, closing, issuer, history>>

(* the worker of a closed manager or of a cancelled attempt just returns *)
WorkerStops(a) ==
  /\ attempt[a].worker = "waiting" /\ (closing \/ attempt[a].status # "pending")
  /\ attempt' = [attempt EXCEPT ![a].worker = "none"]
  /\ UNCHANGED <<stored, refresher, writer, mu, closing, issuer, history>>

(* exchangeCodexCode: nothing keeps a cancelled attempt from exchanging *)
Exchange(a) ==
  /\ attempt[a].worker = "exchanging" /\ issued < MaxTokens
  /\ issued' = issued + 1
  /\ attempt' = [attempt EXCEPT ![a].worker = "saving", ![a].held = issued + 1]
  /\ UNCHANGED <<stored, refresher, writer, mu, closing, spent, history>>

(* complete takes the mutex and looks at the attempt *)
CompleteLooks(a) ==
  /\ attempt[a].worker = "saving" /\ mu = "free"
  /\ IF attempt[a].status = "pending"
     THEN mu' = a /\ UNCHANGED attempt
     ELSE attempt' = [attempt EXCEPT ![a].worker = "none"] /\ UNCHANGED mu
  /\ UNCHANGED <<stored, refresher, writer, closing, issuer, history>>

(* complete writes the row, or the store fails and the attempt with it *)
CompleteSaves(a) ==
  /\ mu = a /\ mu' = "free"
  /\ \/ /\ stored' = OAuth(attempt[a].held, a)
        /\ finish(a, "completed")
     \/ finish(a, "failed") /\ UNCHANGED stored
  /\ UNCHANGED <<refresher, writer, closing, issuer, history>>

CancelAttempt(a) ==
  /\ mu = "free" /\ attempt[a].status = "pending"
  /\ attempt' = [attempt EXCEPT ![a].status = "cancelled"]
  /\ UNCHANGED <<stored, refresher, writer, mu, closing, issuer, history>>

CloseManager ==
  /\ ~closing /\ mu = "free" /\ closing' = TRUE
  /\ UNCHANGED <<stored, attempt, refresher, writer, mu, issuer, history>>

-----------------------------------------------------------------------------
(* Refreshing *)

(* the access token in the row reaches its expiry *)
AccessExpires ==
  /\ stored.unexpired /\ stored' = [stored EXCEPT !.unexpired = FALSE]
  /\ UNCHANGED <<attempt, refresher, writer, mu, closing, issuer, history>>

(* refresh that trusts the credential its caller passed, without the mutex *)
RefreshUnlocked(r) ==
  /\ refresher[r].at = "idle"
  /\ stored.type = "oauth" /\ ~stored.unexpired
  /\ refresher' = [refresher EXCEPT ![r] = [at |-> "asking", read |-> stored]]
  /\ UNCHANGED <<stored, attempt, writer, mu, closing, issuer, history>>

(* refresh, up to the request: the row is read again under the mutex, so   *)
(* a caller that waited finds what the one before it stored                *)
RefreshLooks(r) ==
  /\ refresher[r].at = "idle" /\ mu = "free"
  /\ stored.type = "oauth" /\ ~stored.unexpired
  /\ mu' = r
  /\ refresher' = [refresher EXCEPT ![r] = [at |-> "asking", read |-> stored]]
  /\ UNCHANGED <<stored, attempt, writer, closing, issuer, history>>

(* the issuer takes a token it has not replaced and may replace it; its    *)
(* answer may not arrive (the caller gave up, the connection broke)        *)
RefreshAsks(r) ==
  LET sent == refresher[r].read.refresh
      fail == refresher' = [refresher EXCEPT ![r].at = "idle"] /\ mu' = "free"
      rotate == /\ sent \notin spent /\ issued < MaxTokens
                /\ issued' = issued + 1 /\ spent' = spent \cup {sent}
  IN /\ refresher[r].at = "asking"
     /\ \/ /\ rotate
           /\ refresher' = [refresher EXCEPT ![r].at = "saving",
                                             ![r].read.refresh = issued + 1]
           /\ UNCHANGED <<mu, history>>
        \/ /\ sent \notin spent
           /\ refresher' = [refresher EXCEPT ![r].at = "saving"]
           /\ UNCHANGED <<mu, issuer, history>>
        \/ rotate /\ fail /\ disturbed' = TRUE /\ UNCHANGED reused
        \/ /\ fail /\ reused' = (reused \/ sent \in spent)
           /\ UNCHANGED <<issuer, disturbed>>
     /\ UNCHANGED <<stored, attempt, writer, closing>>

(* the whole row as it was read, with the fresh credential in its place *)
RefreshSaves(r) ==
  LET new == refresher[r].read
  IN /\ refresher[r].at = "saving"
     /\ refresher' = [refresher EXCEPT ![r].at = "idle"]
     /\ mu' = "free"
     /\ \/ /\ stored' = OAuth(new.refresh, new.by)
           /\ UNCHANGED disturbed
        \/ /\ disturbed' = (disturbed \/ stored.refresh \in spent)
           /\ UNCHANGED stored
     /\ UNCHANGED <<attempt, writer, closing, issuer, reused>>

-----------------------------------------------------------------------------
(* Settings: handleSetProvidersAuth and handleDeleteProviderAuth take no   *)
(* lock between the read of the row and its write                          *)

SettingsRead(w, kind) ==
  /\ writer[w].at = "idle"
  /\ kind = "delete" => stored.type # "none"
  /\ writer' = [writer EXCEPT ![w] = [at |-> kind, read |-> stored]]
  /\ UNCHANGED <<stored, attempt, refresher, mu, closing, issuer, history>>

SettingsWrite(w) ==
  LET at == writer[w].at
      new == CASE at = "other" -> writer[w].read
               [] at = "key" -> Key
               [] at = "delete" -> NoEntry
  IN /\ at # "idle"
     /\ writer' = [writer EXCEPT ![w] = [at |-> "idle", read |-> NoEntry]]
     /\ \/ /\ stored' = new
           /\ disturbed' = (disturbed \/ writer[w].read.refresh # stored.refresh)
        \/ UNCHANGED <<stored, disturbed>>
     /\ UNCHANGED <<attempt, refresher, mu, closing, issuer, reused>>

-----------------------------------------------------------------------------
Next ==
  \/ \E a \in Attempts :
       \/ Start(a) \/ Opened(a) \/ CodeArrives(a) \/ AttemptFails(a)
       \/ WorkerStops(a) \/ Exchange(a) \/ CompleteLooks(a)
       \/ CompleteSaves(a) \/ CancelAttempt(a)
  \/ \E r \in Refreshers : RefreshLooks(r) \/ RefreshAsks(r) \/ RefreshSaves(r)
  \/ \E w \in Writers :
       SettingsWrite(w) \/ \E kind \in {"other", "key", "delete"} : SettingsRead(w, kind)
  \/ AccessExpires \/ CloseManager

Spec == Init /\ [][Next]_vars

-----------------------------------------------------------------------------
(* one attempt at a time is waiting for the user *)
OneAttemptPending == \A a, b \in Pending : a = b

(* the OAuth credential in the row came from an attempt that ended as      *)
(* completed: one that was cancelled or timed out stored nothing           *)
StoredByCompleted ==
  stored.by \in Attempts => attempt[stored.by].status = "completed"

(* as long as no settings request wrote over what it had not read and no   *)
(* rotated token was lost, a refresh token is used up by one refresh only  *)
(* and the row holds one the issuer still takes, outside the refresh that  *)
(* is replacing it                                                         *)
TokensSpentOnce ==
  ~disturbed =>
    /\ ~reused
    /\ stored.refresh \in spent => \E r \in Refreshers : refresher[r].at = "saving"

(* Every credential in the row was consented to and can still be used      *)
(* (refresh and complete under m.mu, finish and cancel of an attempt).     *)
CredentialsAreCurrent == OneAttemptPending /\ StoredByCompleted /\ TokensSpentOnce
=============================================================================
