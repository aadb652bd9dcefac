----------------------------- MODULE Handshake -----------------------------
(***************************************************************************)
(* The activation handshake: a destination receives events only after the  *)
(* receiver at its url has echoed a one-time challenge in time             *)
(* (app/confirmation.py, the endpoints of app/main.py that arm or answer a *)
(* round, and the confirmer threads of app/worker.py).                     *)
(*                                                                         *)
(* One action is one committed transaction or one HTTP call.  A confirmer  *)
(* reads url and challenge in one transaction, calls the receiver outside  *)
(* of any, and applies the answer in a third: the destination may move,    *)
(* rotate its challenge or be confirmed in between.                        *)
(***************************************************************************)
EXTENDS Integers

CONSTANTS
  Dests,       \* destinations
  Urls,        \* locations of receivers
  Confirmers,  \* confirmer threads, one per worker process
  Challenges,  \* token_urlsafe values; their number bounds the rounds
  Null,        \* SQL NULL, Python None
  Wrong        \* an echo that is no challenge at all

ASSUME HandshakeAssumption ==
  /\ Null \notin Dests \cup Urls \cup Challenges
  /\ Null \notin {"future", "past"}
  /\ Wrong \notin Challenges \cup {Null}

VARIABLES
  \* destinations
  url,                     \* Null before the registration
  confirmation_state,
  challenge_token,
  challenge_expires_at,    \* Null, "future" or "past"
  confirmation_round,
  confirmation_generation,
  probe_due,               \* next_probe_at is past
  \* confirmer threads
  pc,                      \* "expire", "claim", "probing" or "answered"
  probe,                   \* the destination, url and challenge it read
  echo,                    \* the answer to the probe
  \* receivers
  heard,                   \* the challenges posted to each url
  \* history
  issued,                  \* what arm_round issued, and for what
  proof                    \* the challenge whose echo confirmed the destination

destVars == <<url, confirmation_state, challenge_token, challenge_expires_at,
              confirmation_round, confirmation_generation, probe_due>>
confirmerVars == <<pc, probe, echo>>
historyVars == <<issued, proof>>
vars == <<destVars, confirmerVars, heard, historyVars>>

Issue == [challenge: Challenges, dest: Dests, url: Urls, round: Nat,
          generation: Nat]
Probe == [dest: Dests \cup {Null}, url: Urls \cup {Null},
          challenge: Challenges \cup {Null}]
NoProbe == [dest |-> Null, url |-> Null, challenge |-> Null]

TypeOK ==
  /\ url \in [Dests -> Urls \cup {Null}]
  /\ confirmation_state \in [Dests -> {"pending", "confirmed"}]
  /\ challenge_token \in [Dests -> Challenges \cup {Null}]
  /\ challenge_expires_at \in [Dests -> {Null, "future", "past"}]
  /\ confirmation_round \in [Dests -> Nat]
  /\ confirmation_generation \in [Dests -> Nat]
  /\ probe_due \in [Dests -> BOOLEAN]
  /\ pc \in [Confirmers -> {"expire", "claim", "probing", "answered"}]
  /\ probe \in [Confirmers -> Probe]
  /\ echo \in [Confirmers -> Challenges \cup {Wrong, Null}]
  /\ heard \in [Urls -> SUBSET Challenges]
  /\ issued \in SUBSET Issue
  /\ proof \in [Dests -> Challenges \cup {Null}]

Init ==
  /\ url = [d \in Dests |-> Null]
  /\ confirmation_state = [d \in Dests |-> "pending"]
  /\ challenge_token = [d \in Dests |-> Null]
  /\ challenge_expires_at = [d \in Dests |-> Null]
  /\ confirmation_round = [d \in Dests |-> 1]
  /\ confirmation_generation = [d \in Dests |-> 1]
  /\ probe_due = [d \in Dests |-> FALSE]
  /\ pc = [t \in Confirmers |-> "expire"]
  /\ probe = [t \in Confirmers |-> NoProbe]
  /\ echo = [t \in Confirmers |-> Null]
  /\ heard = [u \in Urls |-> {}]
  /\ issued = {}
  /\ proof = [d \in Dests |-> Null]

----------------------------------------------------------------------------
(***************************************************************************)
(* arm_round for every destination of S, at the urls `at`: new_challenge   *)
(* gives each of them a token of its own.                                  *)
(***************************************************************************)
Unused == {k \in Challenges : \A i \in issued : i.challenge # k}

FreshTokens(S) == {f \in [S -> Unused] :
                     \A d, e \in S : f[d] = f[e] => d = e}

\* Fault: an open round keeps its challenge.
ArmKeepingToken(S, at, bump) ==
  \E fresh \in FreshTokens(S) :
    LET token == [d \in S |-> IF challenge_token[d] # Null
                              THEN challenge_token[d] ELSE fresh[d]] IN
    /\ confirmation_state' = [d \in Dests |-> IF d \in S THEN "pending"
                                              ELSE confirmation_state[d]]
    /\ challenge_token' = [d \in Dests |-> IF d \in S THEN token[d]
                                           ELSE challenge_token[d]]
    /\ challenge_expires_at' = [d \in Dests |-> IF d \in S THEN "future"
                                                ELSE challenge_expires_at[d]]
    /\ confirmation_round' = [d \in Dests |-> IF d \in S
                                              THEN confirmation_round[d] + 1
                                              ELSE confirmation_round[d]]
    /\ confirmation_generation' = [d \in Dests |->
                                     IF d \in S /\ bump
                                     THEN confirmation_generation[d] + 1
                                     ELSE confirmation_generation[d]]
    /\ probe_due' = [d \in Dests |-> d \in S \/ probe_due[d]]
    /\ issued' = issued \cup
         {[challenge |-> token[d], dest |-> d, url |-> at[d],
           round |-> confirmation_round'[d],
           generation |-> confirmation_generation'[d]] : d \in S}

ArmRound(S, at, bump) ==
  \E fresh \in FreshTokens(S) :
    /\ confirmation_state' = [d \in Dests |-> IF d \in S THEN "pending"
                                              ELSE confirmation_state[d]]
    /\ challenge_token' = [d \in Dests |-> IF d \in S THEN fresh[d]
                                           ELSE challenge_token[d]]
    /\ challenge_expires_at' = [d \in Dests |-> IF d \in S THEN "future"
                                                ELSE challenge_expires_at[d]]
    /\ confirmation_round' = [d \in Dests |-> IF d \in S
                                              THEN confirmation_round[d] + 1
                                              ELSE confirmation_round[d]]
    /\ confirmation_generation' = [d \in Dests |->
                                     IF d \in S /\ bump
                                     THEN confirmation_generation[d] + 1
                                     ELSE confirmation_generation[d]]
    /\ probe_due' = [d \in Dests |-> d \in S \/ probe_due[d]]
    /\ issued' = issued \cup
         {[challenge |-> fresh[d], dest |-> d, url |-> at[d],
           round |-> confirmation_round'[d],
           generation |-> confirmation_generation'[d]] : d \in S}

Registered == {d \in Dests : url[d] # Null}

\* A second registration of the same url changes nothing here.
RegisterDestination(d, u) ==
  /\ d \notin Registered
  /\ \A e \in Registered : url[e] # u
  /\ url' = [url EXCEPT ![d] = u]
  /\ ArmRound({d}, url', FALSE)
  /\ UNCHANGED <<confirmerVars, heard, proof>>

\* PATCH with a new url that no other destination has.
Relocate(d, u) ==
  /\ d \in Registered
  /\ \A e \in Registered : url[e] # u
  /\ url' = [url EXCEPT ![d] = u]
  /\ ArmRound({d}, url', TRUE)
  /\ UNCHANGED <<confirmerVars, heard, proof>>

ReissueChallenge(d) ==
  /\ d \in Registered
  /\ confirmation_state[d] = "pending"
  /\ ArmRound({d}, url, FALSE)
  /\ UNCHANGED <<url, confirmerVars, heard, proof>>

----------------------------------------------------------------------------
(***************************************************************************)
(* apply_echo, under the destination's row lock.  An echo that comes after *)
(* the deadline rotates the round, a wrong one and a repeated one change   *)
(* nothing.                                                                *)
(***************************************************************************)
\* Fault: a round that waits for its next probe does not run out.
OverdueOnceProbed(d) == challenge_expires_at[d] = "past" /\ ~probe_due[d]

Overdue(d) == challenge_expires_at[d] = "past"

Confirm(d, k) ==
  /\ k = challenge_token[d]
  /\ confirmation_state' = [confirmation_state EXCEPT ![d] = "confirmed"]
  /\ challenge_token' = [challenge_token EXCEPT ![d] = Null]
  /\ challenge_expires_at' = [challenge_expires_at EXCEPT ![d] = Null]
  /\ probe_due' = [probe_due EXCEPT ![d] = TRUE]
  /\ proof' = [proof EXCEPT ![d] = k]
  /\ UNCHANGED <<url, confirmation_round, confirmation_generation, issued>>

ApplyEcho(d, k) ==
  \/ /\ confirmation_state[d] = "confirmed"
     /\ UNCHANGED <<destVars, historyVars>>
  \/ /\ confirmation_state[d] = "pending" /\ Overdue(d)
     /\ ArmRound({d}, url, FALSE)
     /\ UNCHANGED <<url, proof>>
  \/ /\ confirmation_state[d] = "pending" /\ ~Overdue(d)
     /\ Confirm(d, k)
  \/ /\ confirmation_state[d] = "pending" /\ ~Overdue(d)
     /\ k # challenge_token[d]
     /\ UNCHANGED <<destVars, historyVars>>

\* POST .../confirm: from anyone who was told a challenge, whenever.
ConfirmDestination(d, k) ==
  /\ d \in Registered
  /\ k = Wrong \/ \E u \in Urls : k \in heard[u]
  /\ ApplyEcho(d, k)
  /\ UNCHANGED <<confirmerVars, heard>>

----------------------------------------------------------------------------
(***************************************************************************)
(* process_confirmation_once.                                              *)
(***************************************************************************)
DueRounds == {d \in Registered : confirmation_state[d] = "pending"
                                   /\ Overdue(d)}

\* Fault: an expired round is closed and no new one is armed.
CloseDueRounds(t) ==
  /\ pc[t] = "expire"
  /\ pc' = [pc EXCEPT ![t] = "claim"]
  /\ challenge_token' = [d \in Dests |-> IF d \in DueRounds THEN Null
                                         ELSE challenge_token[d]]
  /\ challenge_expires_at' = [d \in Dests |-> IF d \in DueRounds THEN Null
                                              ELSE challenge_expires_at[d]]
  /\ UNCHANGED <<url, confirmation_state, confirmation_round,
                 confirmation_generation, probe_due, probe, echo, heard,
                 historyVars>>

\* expire_due_rounds
ExpireDueRounds(t) ==
  /\ pc[t] = "expire"
  /\ pc' = [pc EXCEPT ![t] = "claim"]
  /\ ArmRound(DueRounds, url, FALSE)
  /\ UNCHANGED <<url, probe, echo, heard, proof>>

Probeable(d) == /\ d \in Registered
                /\ confirmation_state[d] = "pending"
                /\ probe_due[d]

\* The row is read and its next probe scheduled in one transaction.
ClaimProbe(t, d) ==
  /\ pc[t] = "claim"
  /\ Probeable(d)
  /\ pc' = [pc EXCEPT ![t] = "probing"]
  /\ probe' = [probe EXCEPT ![t] = [dest |-> d, url |-> url[d],
                                    challenge |-> challenge_token[d]]]
  /\ probe_due' = [probe_due EXCEPT ![d] = FALSE]
  /\ UNCHANGED <<url, confirmation_state, challenge_token,
                 challenge_expires_at, confirmation_round,
                 confirmation_generation, echo, heard, historyVars>>

NothingToProbe(t) ==
  /\ pc[t] = "claim"
  /\ \A d \in Dests : ~Probeable(d)
  /\ pc' = [pc EXCEPT ![t] = "expire"]
  /\ UNCHANGED <<destVars, probe, echo, heard, historyVars>>

\* Fault: the url is looked up when the call is made.
CurrentUrl(t) == url[probe[t].dest]

ProbeUrl(t) == probe[t].url

(***************************************************************************)
(* send_confirmation_probe: the receiver may answer 2xx with any challenge *)
(* it was ever told or with something else; a call without a usable echo   *)
(* (Null) may have reached it all the same.                                *)
(***************************************************************************)
SendProbe(t) ==
  LET u == ProbeUrl(t)
      told == heard[u] \cup {probe[t].challenge}
  IN
  /\ pc[t] = "probing"
  /\ pc' = [pc EXCEPT ![t] = "answered"]
  /\ \/ /\ heard' = [heard EXCEPT ![u] = told]
        /\ \E k \in told \cup {Wrong, Null} : echo' = [echo EXCEPT ![t] = k]
     \/ UNCHANGED <<heard, echo>>
  /\ UNCHANGED <<destVars, probe, historyVars>>

\* The result's transaction; a failed one is rolled back and forgotten.
RecordProbe(t) ==
  /\ pc[t] = "answered"
  /\ pc' = [pc EXCEPT ![t] = "expire"]
  /\ probe' = [probe EXCEPT ![t] = NoProbe]
  /\ echo' = [echo EXCEPT ![t] = Null]
  /\ \/ echo[t] # Null /\ ApplyEcho(probe[t].dest, echo[t])
     \/ UNCHANGED <<destVars, historyVars>>
  /\ UNCHANGED heard

----------------------------------------------------------------------------
\* The passing of time.  Bound: no round runs out once the challenges have.
RoundElapses(d) ==
  /\ Unused # {}
  /\ challenge_expires_at[d] = "future"
  /\ challenge_expires_at' = [challenge_expires_at EXCEPT ![d] = "past"]
  /\ UNCHANGED <<url, confirmation_state, challenge_token,
                 confirmation_round, confirmation_generation, probe_due,
                 confirmerVars, heard, historyVars>>

ProbeBackoffElapses(d) ==
  /\ d \in Registered
  /\ ~probe_due[d]
  /\ probe_due' = [probe_due EXCEPT ![d] = TRUE]
  /\ UNCHANGED <<url, confirmation_state, challenge_token,
                 challenge_expires_at, confirmation_round,
                 confirmation_generation, confirmerVars, heard, historyVars>>

DestStep(d) ==
  \/ \E u \in Urls : RegisterDestination(d, u) \/ Relocate(d, u)
  \/ ReissueChallenge(d)
  \/ \E k \in Challenges \cup {Wrong} : ConfirmDestination(d, k)
  \/ RoundElapses(d)
  \/ ProbeBackoffElapses(d)

ConfirmerStep(t) ==
  \/ ExpireDueRounds(t)
  \/ \E d \in Dests : ClaimProbe(t, d)
  \/ NothingToProbe(t)
  \/ SendProbe(t)
  \/ RecordProbe(t)

Next == \/ \E d \in Dests : DestStep(d)
        \/ \E t \in Confirmers : ConfirmerStep(t)

Spec == Init /\ [][Next]_vars

(***************************************************************************)
(* confirmer_loop polls for ever and survives every exception, the HTTP    *)
(* client has a timeout, and time passes.  ORDER BY next_probe_at keeps a  *)
(* destination that is due from being passed over for ever: SF.            *)
(***************************************************************************)
Fairness ==
  /\ \A t \in Confirmers :
       /\ WF_vars(ExpireDueRounds(t))
       /\ WF_vars(NothingToProbe(t))
       /\ WF_vars(SendProbe(t))
       /\ WF_vars(RecordProbe(t))
       /\ \A d \in Dests : SF_vars(ClaimProbe(t, d))
  /\ \A d \in Dests : WF_vars(RoundElapses(d)) /\ WF_vars(ProbeBackoffElapses(d))

FairSpec == Spec /\ Fairness

----------------------------------------------------------------------------
\* What arm_round issued for the round that d is in now, with challenge k.
CurrentIssue(d, k) ==
  [challenge |-> k, dest |-> d, url |-> url[d],
   round |-> confirmation_round[d],
   generation |-> confirmation_generation[d]]

\* A destination is confirmed by the challenge of its present round, issued
\* for its present url, and the receiver there was told it: no echo of an
\* older round or of an older location confirms, however late it comes.
ConfirmedAtLocation ==
  \A d \in Dests : confirmation_state[d] = "confirmed" =>
    /\ CurrentIssue(d, proof[d]) \in issued
    /\ proof[d] \in heard[url[d]]

\* A challenge reaches no other location than the one it was issued for, also
\* when the destination moves while its probe is on the way.
ChallengesStayHome ==
  \A u \in Urls : \A i \in issued : i.challenge \in heard[u] => i.url = u

\* An unconfirmed destination can always be confirmed: the outstanding
\* challenge belongs to its present url and round, and has a deadline.
RoundIsOpen ==
  \A d \in Registered : confirmation_state[d] = "pending" =>
    /\ CurrentIssue(d, challenge_token[d]) \in issued
    /\ challenge_expires_at[d] # Null

\* No destination is confirmed by an echo that comes after the deadline.
ConfirmedInTime ==
  [][\A d \in Dests :
       confirmation_state[d] = "pending" /\ confirmation_state'[d] = "confirmed"
         => challenge_expires_at[d] = "future"]_vars

\* An unconfirmed destination is probed again and again, with the challenge
\* that is outstanding then, until it is confirmed.
PendingIsProbed ==
  \A d \in Dests :
    d \in Registered ~>
      \/ confirmation_state[d] = "confirmed"
      \/ \E t \in Confirmers : /\ pc[t] = "probing"
                                /\ probe[t].dest = d
                                /\ probe[t].challenge = challenge_token[d]
                                /\ challenge_token[d] # Null

\* A round that nobody answers is replaced by a new one (as long as there
\* are challenges: the bound).
RoundsEnd ==
  \A d \in Dests, k \in Challenges :
    challenge_token[d] = k ~> challenge_token[d] # k \/ Unused = {}
============================================================================
