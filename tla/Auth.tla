-------------------------------- MODULE Auth --------------------------------
(***************************************************************************)
(* The authenticators of tomcatrs-security over their realms: BASIC and    *)
(* FORM logins through a LockOutRealm around a CombinedRealm, the saved    *)
(* request of a FORM login, and DIGEST with its nonces and replay table.   *)
(* Requests run on several tasks; every await lets another one in, and the *)
(* clock moves between any two readings of it.  A hash is the tuple it is  *)
(* computed from.                                                          *)
(***************************************************************************)
EXTENDS Integers, Sequences, FiniteSets, SequencesExt

CONSTANTS
  Tasks,        \* requests being served at a time
  Users,        \* user names presented
  Secrets,      \* passwords presented
  Realms,       \* the inner realms in order: functions from users to secrets
  FailureCount, \* LockOutRealm::failure_count
  LockoutTime,  \* LockOutRealm::lockout_time
  NonceTtl,     \* NONCE_TTL_MILLIS
  Tokens,       \* saved-request and CSRF tokens
  MaxNonces,    \* bound: nonces issued
  MaxClock      \* bound: clock ticks

ASSUME AuthAssumption ==
  /\ IsFiniteSet(Tasks)
  /\ FailureCount \in Nat /\ LockoutTime \in Nat /\ NonceTtl \in Nat
  /\ MaxNonces \in Nat /\ MaxClock \in Nat

VARIABLES
  clock,    \* wall clock and monotonic clock
  failures, \* LockOutRealm::failures: count and lock time, -1 for none
  attempt,  \* each task's request
  saved,    \* SavedRequestStore: the path saved under each token, or "none"
  csrf,     \* CsrfTokenStore
  issued,   \* nonces handed out, by their time
  nonces,   \* the replay table: per nonce, the nc values seen, or none
  history   \* failed consultations, replays, accepted digests, spent tokens

authVars == <<clock, failures, attempt, saved, csrf, issued, nonces, history>>

NoRecord == [count |-> 0, locked |-> -1]
Free == [at |-> "free"]
NoEntry == [tracked |-> FALSE, seen |-> {}]

AuthInit ==
  /\ clock = 0
  /\ failures = [u \in Users |-> NoRecord]
  /\ attempt = [t \in Tasks |-> Free]
  /\ saved = [k \in Tokens |-> "none"] /\ csrf = {}
  /\ issued = <<>> /\ nonces = [n \in 1..MaxNonces |-> NoEntry]
  /\ history = [fails |-> [u \in Users |-> <<>>], replayed |-> <<>>, digests |-> <<>>, spent |-> <<>>]

Tick ==
  /\ clock < MaxClock /\ clock' = clock + 1
  /\ UNCHANGED <<failures, attempt, saved, csrf, issued, nonces, history>>

(***************************************************************************)
(* Realms                                                                  *)
(***************************************************************************)
\* CombinedRealm::authenticate over realms that know their users: the first
\* that says yes; a backend that fails ends the search.
Inner(user, secret) ==
  LET knows == SelectInSeq(Realms, LAMBDA r : user \in DOMAIN r.users /\ r.users[user] = secret)
      fails == SelectInSeq(Realms, LAMBDA r : r.broken)
  IN IF fails # 0 /\ (knows = 0 \/ fails < knows) THEN "error"
     ELSE IF knows # 0 THEN "yes" ELSE "no"

\* CombinedRealm::digest_ha1: the first realm with digest material for the user.
StoredHa1(user) ==
  LET first == SelectInSeq(Realms, LAMBDA r : r.digest /\ user \in DOMAIN r.users)
  IN IF first = 0 THEN "none" ELSE Realms[first].users[user]

Locked(user) == failures[user].locked # -1 /\ clock - failures[user].locked < LockoutTime

\* The second half of LockOutRealm::authenticate: a success forgets the record,
\* also a lock set meanwhile; a failure counts, and locks at the limit.
Record(user, outcome) ==
  CASE outcome = "yes" -> [failures EXCEPT ![user] = NoRecord]
    [] outcome = "no" -> [failures EXCEPT ![user].count = @ + 1,
                            ![user].locked = IF failures[user].count + 1 >= FailureCount
                                             THEN clock ELSE @]
    [] outcome = "error" -> failures

(***************************************************************************)
(* BASIC and FORM                                                          *)
(***************************************************************************)
(* Mutant: an elapsed window is not cleared but left to lapse. *)
BeginLoginKeeps(t, user, secret, token) ==
  /\ attempt[t] = Free /\ ~Locked(user)
  /\ attempt' = [attempt EXCEPT ![t] = [at |-> "inner", user |-> user, secret |-> secret,
                                        token |-> token]]
  /\ failures' = [failures EXCEPT ![user] = NoRecord]
  /\ UNCHANGED <<clock, saved, csrf, issued, nonces, history>>

\* The first half: refused while locked; a window that has passed is cleared.
\* A FORM login brings its saved-request token, a BASIC one none.
BeginLogin(t, user, secret, token) ==
  /\ attempt[t] = Free /\ ~Locked(user)
  /\ attempt' = [attempt EXCEPT ![t] = [at |-> "inner", user |-> user, secret |-> secret,
                                        token |-> token]]
  /\ failures' = [failures EXCEPT ![user] = IF @.locked # -1 THEN NoRecord ELSE @]
  /\ UNCHANGED <<clock, saved, csrf, issued, nonces, history>>

(* Mutant: the saved request is read and left in the store. *)
TakeSavedKeeps(token) == saved

\* SavedRequestStore::take
TakeSaved(token) ==
  IF token \in Tokens THEN [saved EXCEPT ![token] = "none"] ELSE saved

\* The inner realm has answered.  FormAuthenticator::process then takes the
\* saved request and redirects to it, or to the root.
EndLogin(t) ==
  /\ attempt[t].at = "inner"
  /\ LET user == attempt[t].user
         token == attempt[t].token
         outcome == Inner(user, attempt[t].secret)
         path == IF outcome = "yes" /\ token \in Tokens THEN saved[token] ELSE "none"
     IN /\ failures' = Record(user, outcome)
        /\ saved' = IF outcome = "yes" THEN TakeSaved(token) ELSE saved
        /\ history' = [history EXCEPT
             !.fails[user] = IF outcome = "no" THEN Append(@, clock)
                             ELSE IF outcome = "yes" THEN <<>> ELSE @,
             !.replayed = IF path # "none" THEN Append(@, <<token, path>>) ELSE @]
  /\ attempt' = [attempt EXCEPT ![t] = Free]
  /\ UNCHANGED <<clock, csrf, issued, nonces>>

\* An unauthenticated request under FORM: it is saved under its token, over an
\* earlier one, and the login page shown.  (Bound: a path is not saved again
\* under a token that already replayed it.)
SaveRequest(t, token, path) ==
  /\ attempt[t] = Free /\ saved[token] # path
  /\ ~\E i \in DOMAIN history.replayed : history.replayed[i] = <<token, path>>
  /\ saved' = [saved EXCEPT ![token] = path]
  /\ UNCHANGED <<clock, failures, attempt, csrf, issued, nonces, history>>

(***************************************************************************)
(* DIGEST                                                                  *)
(***************************************************************************)
\* challenge: a nonce carries its time.
Challenge ==
  /\ Len(issued) < MaxNonces /\ issued' = Append(issued, clock)
  /\ UNCHANGED <<clock, failures, attempt, saved, csrf, nonces, history>>

\* The response of a client: the tuple that is hashed; without qop there is no
\* nc in it.
DigestResponse(secret, nonce, nc, qop) == IF qop THEN <<secret, nonce, nc>> ELSE <<secret, nonce>>

\* parse_authorization, the realm, algorithm and qop checks (qop needs an nc; 0
\* is no nc), and validate_nonce: a nonce of ours that is not too old.
BeginDigest(t, user, secret, nonce, nc, qop) ==
  /\ attempt[t] = Free /\ nonce \in DOMAIN issued
  /\ clock - issued[nonce] <= NonceTtl /\ (qop => nc # 0)
  /\ attempt' = [attempt EXCEPT ![t] = [at |-> "replay", user |-> user, nonce |-> nonce, nc |-> nc,
                                        qop |-> qop, response |-> DigestResponse(secret, nonce, nc, qop)]]
  /\ UNCHANGED <<clock, failures, saved, csrf, issued, nonces, history>>

\* The entries that outlive the pruning at this reading of the clock.
Pruned ==
  [n \in DOMAIN nonces |->
     IF nonces[n].tracked /\ clock - issued[n] > NonceTtl THEN NoEntry ELSE nonces[n]]

(* Mutant: nothing is recorded until the response has been verified. *)
CheckReplayLate(t) ==
  /\ attempt[t].at = "replay"
  /\ LET entry == Pruned[attempt[t].nonce]
         fresh == attempt[t].nc \notin entry.seen
     IN /\ nonces' = Pruned
        /\ attempt' = [attempt EXCEPT ![t] = IF fresh THEN [@ EXCEPT !.at = "ha1"] ELSE Free]
  /\ UNCHANGED <<clock, failures, saved, csrf, issued, history>>

\* The replay check of a request that has an nc: prune, find or make the entry,
\* insert nc.  The legacy form without one is not tracked.
CheckReplay(t) ==
  /\ attempt[t].at = "replay"
  /\ LET a == attempt[t]
         entry == Pruned[a.nonce]
         fresh == a.nc = 0 \/ a.nc \notin entry.seen
     IN /\ nonces' = IF a.nc = 0 THEN nonces
           ELSE [Pruned EXCEPT ![a.nonce] = [tracked |-> TRUE, seen |-> entry.seen \cup {a.nc}]]
        /\ attempt' = [attempt EXCEPT ![t] = IF fresh THEN [@ EXCEPT !.at = "ha1"] ELSE Free]
  /\ UNCHANGED <<clock, failures, saved, csrf, issued, history>>

\* The realm's HA1 and the comparison.
EndDigest(t) ==
  /\ attempt[t].at = "ha1"
  /\ LET a == attempt[t]
         ha1 == StoredHa1(a.user)
         match == ha1 # "none" /\ a.response = DigestResponse(ha1, a.nonce, a.nc, a.qop)
     IN history' = IF match /\ a.nc # 0 THEN [history EXCEPT !.digests =
                     Append(@, [nonce |-> a.nonce, nc |-> a.nc, late |-> clock - issued[a.nonce] > NonceTtl])]
                   ELSE history
  /\ attempt' = [attempt EXCEPT ![t] = Free]
  /\ UNCHANGED <<clock, failures, saved, csrf, issued, nonces>>

(***************************************************************************)
(* CSRF tokens                                                             *)
(***************************************************************************)
\* CsrfTokenStore::issue; a token is generated once.
IssueCsrf(token) ==
  /\ token \notin csrf /\ token \notin ToSet(history.spent)
  /\ csrf' = csrf \cup {token}
  /\ UNCHANGED <<clock, failures, attempt, saved, issued, nonces, history>>

\* CsrfTokenStore::consume of a valid token.
ConsumeCsrf(token) ==
  /\ token \in csrf
  /\ csrf' = csrf \ {token}
  /\ history' = [history EXCEPT !.spent = Append(@, token)]
  /\ UNCHANGED <<clock, failures, attempt, saved, issued, nonces>>

LoginNext ==
  \/ Tick
  \/ \E t \in Tasks :
       \/ EndLogin(t)
       \/ \E u \in Users, s \in Secrets, k \in Tokens \cup {"none"} : BeginLogin(t, u, s, k)
       \/ \E k \in Tokens : SaveRequest(t, k, "a") \/ SaveRequest(t, k, "b")
  \/ \E k \in Tokens : IssueCsrf(k) \/ ConsumeCsrf(k)

DigestNext ==
  \/ Tick \/ Challenge
  \/ \E t \in Tasks :
       \/ CheckReplay(t) \/ EndDigest(t)
       \/ \E u \in Users, s \in Secrets, n \in 1..MaxNonces, nc \in 0..2, qop \in BOOLEAN :
            BeginDigest(t, u, s, n, nc, qop)

LoginSpec == AuthInit /\ [][LoginNext]_authVars
DigestSpec == AuthInit /\ [][DigestNext]_authVars

\* Requests of both kinds, over the same realms and stores.
AuthSpec == AuthInit /\ [][LoginNext \/ DigestNext]_authVars

(***************************************************************************)
(* Properties                                                              *)
(***************************************************************************)
\* A limit of no failures locks at the first, as a limit of one does.
Limit == IF FailureCount = 0 THEN 1 ELSE FailureCount

\* Guesses are limited whatever the concurrency: between two logins that
\* succeed, any run of wrong answers one longer than the limit allows, those in
\* flight included, spans a whole lockout window.
GuessesLimited ==
  \A u \in Users :
    LET f == history.fails[u]
        n == Limit + Cardinality(Tasks) - 1
    IN \A i \in DOMAIN f : i + n \in DOMAIN f => f[i + n] - f[i] >= LockoutTime

\* A saved request is replayed to one login only, however many race for it.
SavedOnce ==
  \A i, j \in DOMAIN history.replayed :
    i # j => history.replayed[i] # history.replayed[j]

\* A request counter is accepted once per nonce (EndDigest notes only requests
\* that carry one); the one exception is a request
\* whose nonce ran out while it was being checked, between the two readings of
\* the clock.
CounterOnce ==
  \A i, j \in DOMAIN history.digests :
    i < j /\ history.digests[i].nonce = history.digests[j].nonce
          /\ history.digests[i].nc = history.digests[j].nc => history.digests[j].late
\* Credentials hold up when requests race: the lockout limits wrong guesses, a
\* saved request is replayed once and a digest's counter is accepted once.
CredentialsGuarded == GuessesLimited /\ SavedOnce /\ CounterOnce
=============================================================================
