-------------------------- MODULE HandshakeProofs --------------------------
(***************************************************************************)
(* Theorems about Handshake, for every set of destinations, locations,     *)
(* confirmer threads and challenges.                                       *)
(***************************************************************************)
EXTENDS Handshake, TLAPS

(***************************************************************************)
(* The inductive invariant.                                                *)
(***************************************************************************)
\* Every call of arm_round issues a challenge of its own.
IssuesDiffer ==
  \A i, j \in issued : i.challenge = j.challenge => i = j

\* A receiver knows a challenge only because it was issued for its url.
HeardWasIssued ==
  \A u \in Urls : \A k \in heard[u] :
    \E i \in issued : i.challenge = k /\ i.url = u

\* Before its registration a destination is not confirmed.
UnregisteredIsPending ==
  \A d \in Dests \ Registered : confirmation_state[d] = "pending"

Rounds == /\ IssuesDiffer
          /\ HeardWasIssued
          /\ UnregisteredIsPending
          /\ RoundIsOpen
          /\ ConfirmedAtLocation

\* A probe carries a challenge to the url it was issued for, however old.
ProbesFit ==
  \A t \in Confirmers : pc[t] \in {"probing", "answered"} =>
    /\ probe[t].dest \in Registered
    /\ \E i \in issued : /\ i.challenge = probe[t].challenge
                         /\ i.url = probe[t].url

\* An echo is wrong, or a challenge that some receiver was told.
EchoesFit ==
  \A t \in Confirmers : echo[t] \in Challenges =>
    \E u \in Urls : echo[t] \in heard[u]

Probes == ProbesFit /\ EchoesFit

IInv == TypeOK /\ Rounds /\ Probes

\* TypeOK's conjuncts about the variables that arm_round and apply_echo set.
RowsOK ==
  /\ confirmation_state \in [Dests -> {"pending", "confirmed"}]
  /\ challenge_token \in [Dests -> Challenges \cup {Null}]
  /\ challenge_expires_at \in [Dests -> {Null, "future", "past"}]
  /\ confirmation_round \in [Dests -> Nat]
  /\ confirmation_generation \in [Dests -> Nat]
  /\ probe_due \in [Dests -> BOOLEAN]
  /\ issued \in SUBSET Issue
  /\ proof \in [Dests -> Challenges \cup {Null}]

----------------------------------------------------------------------------
(***************************************************************************)
(* arm_round.                                                              *)
(***************************************************************************)
\* Whatever set of destinations is armed, at their new urls or at the old
\* ones: the rounds of all destinations stay in order.
LEMMA ArmingKeepsRounds ==
  ASSUME TypeOK, Rounds,
         NEW S \in SUBSET Dests, NEW bump \in BOOLEAN, NEW at,
         ArmRound(S, at, bump),
         url' \in [Dests -> Urls \cup {Null}],
         \A d \in S : url'[d] = at[d] /\ at[d] \in Urls,
         \A d \in Dests \ S : url'[d] = url[d],
         UNCHANGED <<heard, proof>>
  PROVE  RowsOK' /\ Rounds' /\ issued \subseteq issued'
<1>1. PICK fresh \in FreshTokens(S) :
        /\ confirmation_state' = [d \in Dests |-> IF d \in S THEN "pending"
                                                  ELSE confirmation_state[d]]
        /\ challenge_token' = [d \in Dests |-> IF d \in S THEN fresh[d]
                                               ELSE challenge_token[d]]
        /\ challenge_expires_at' = [d \in Dests |-> IF d \in S THEN "future"
                                                    ELSE challenge_expires_at[d]]
        /\ confirmation_round' = [d \in Dests |-> IF d \in S
                                                  THEN confirmation_round[d] + 1
                                                  ELSE confirmation_round[d]]
        /\ confirmation_generation' = [d \in Dests |->
                                         IF d \in S /\ bump
                                         THEN confirmation_generation[d] + 1
                                         ELSE confirmation_generation[d]]
        /\ probe_due' = [d \in Dests |-> d \in S \/ probe_due[d]]
        /\ issued' = issued \cup
             {[challenge |-> fresh[d], dest |-> d, url |-> at[d],
               round |-> confirmation_round'[d],
               generation |-> confirmation_generation'[d]] : d \in S}
  BY DEF ArmRound
<1>2. /\ \A d \in S : fresh[d] \in Challenges
      /\ \A d \in S : \A i \in issued : i.challenge # fresh[d]
      /\ \A d, e \in S : fresh[d] = fresh[e] => d = e
  BY DEF FreshTokens, Unused
<1>3. /\ confirmation_round' \in [Dests -> Nat]
      /\ confirmation_generation' \in [Dests -> Nat]
  BY <1>1 DEF TypeOK
<1>4. issued' \in SUBSET Issue
  <2> SUFFICES ASSUME NEW d \in S
               PROVE  [challenge |-> fresh[d], dest |-> d, url |-> at[d],
                       round |-> confirmation_round'[d],
                       generation |-> confirmation_generation'[d]] \in Issue
    BY <1>1 DEF TypeOK
  <2>1. /\ d \in Dests /\ fresh[d] \in Challenges /\ at[d] \in Urls
        /\ confirmation_round'[d] \in Nat
        /\ confirmation_generation'[d] \in Nat
    BY <1>2, <1>3
  <2> QED
    BY <2>1 DEF Issue
<1>5. RowsOK'
  <2>1. /\ confirmation_state' \in [Dests -> {"pending", "confirmed"}]
        /\ challenge_token' \in [Dests -> Challenges \cup {Null}]
        /\ challenge_expires_at' \in [Dests -> {Null, "future", "past"}]
    BY <1>1, <1>2 DEF TypeOK
  <2>2. probe_due' \in [Dests -> BOOLEAN]
    BY <1>1 DEF TypeOK
  <2> QED
    BY <1>3, <1>4, <2>1, <2>2 DEF RowsOK, TypeOK
<1>6. IssuesDiffer'
  <2> SUFFICES ASSUME NEW i \in issued', NEW j \in issued',
                      i.challenge = j.challenge
               PROVE  i = j
    BY DEF IssuesDiffer
  <2>1. ASSUME NEW x \in issued', x \notin issued
        PROVE  \E d \in S : x = [challenge |-> fresh[d], dest |-> d,
                                 url |-> at[d],
                                 round |-> confirmation_round'[d],
                                 generation |-> confirmation_generation'[d]]
    BY <1>1, <2>1
  <2>2. CASE i \in issued /\ j \in issued
    BY <2>2 DEF Rounds, IssuesDiffer
  <2>3. CASE i \notin issued /\ j \in issued
    BY <1>2, <2>1, <2>3
  <2>4. CASE i \in issued /\ j \notin issued
    BY <1>2, <2>1, <2>4
  <2>5. CASE i \notin issued /\ j \notin issued
    BY <1>2, <2>1, <2>5
  <2> QED
    BY <2>2, <2>3, <2>4, <2>5
<1>7. issued \subseteq issued'
  BY <1>1
<1>8. HeardWasIssued'
  BY <1>7 DEF Rounds, HeardWasIssued
<1>9. UnregisteredIsPending'
  <2> SUFFICES ASSUME NEW d \in Dests, url'[d] = Null
               PROVE  confirmation_state'[d] = "pending"
    BY DEF UnregisteredIsPending, Registered
  <2>1. CASE d \in S
    BY <1>1, <2>1
  <2>2. CASE d \notin S
    BY <1>1, <2>2 DEF Rounds, UnregisteredIsPending, Registered
  <2> QED
    BY <2>1, <2>2
<1>10. RoundIsOpen'
  <2> SUFFICES ASSUME NEW d \in Dests, url'[d] # Null,
                      confirmation_state'[d] = "pending"
               PROVE  /\ CurrentIssue(d, challenge_token[d])' \in issued'
                      /\ challenge_expires_at'[d] # Null
    BY DEF RoundIsOpen, Registered
  <2>1. CASE d \in S
    <3>1. CurrentIssue(d, challenge_token[d])'
            = [challenge |-> fresh[d], dest |-> d, url |-> at[d],
               round |-> confirmation_round'[d],
               generation |-> confirmation_generation'[d]]
      BY <1>1, <2>1 DEF CurrentIssue
    <3>2. CurrentIssue(d, challenge_token[d])' \in issued'
      BY <1>1, <2>1, <3>1
    <3>3. challenge_expires_at'[d] = "future" /\ "future" # Null
      BY <1>1, <2>1, HandshakeAssumption
    <3> QED
      BY <3>2, <3>3
  <2>2. CASE d \notin S
    <3>1. /\ CurrentIssue(d, challenge_token[d])'
               = CurrentIssue(d, challenge_token[d])
          /\ challenge_expires_at'[d] = challenge_expires_at[d]
          /\ confirmation_state[d] = "pending" /\ d \in Registered
      BY <1>1, <2>2 DEF CurrentIssue, Registered
    <3> QED
      BY <1>7, <3>1 DEF Rounds, RoundIsOpen
  <2> QED
    BY <2>1, <2>2
<1>11. ConfirmedAtLocation'
  <2> SUFFICES ASSUME NEW d \in Dests, confirmation_state'[d] = "confirmed"
               PROVE  /\ CurrentIssue(d, proof[d])' \in issued'
                      /\ proof'[d] \in heard'[url'[d]]
    BY DEF ConfirmedAtLocation
  <2>1. d \notin S /\ confirmation_state[d] = "confirmed"
    BY <1>1
  <2>2. CurrentIssue(d, proof[d])' = CurrentIssue(d, proof[d])
    BY <1>1, <2>1 DEF CurrentIssue
  <2> QED
    BY <1>7, <2>1, <2>2 DEF Rounds, ConfirmedAtLocation
<1> QED
  BY <1>5, <1>6, <1>7, <1>8, <1>9, <1>10, <1>11 DEF Rounds

----------------------------------------------------------------------------
(***************************************************************************)
(* apply_echo.                                                             *)
(***************************************************************************)
\* The echo that confirms was heard at the present url: it is the challenge
\* of the present round, and only that url was told it.
LEMMA MatchIsHeardAtHome ==
  ASSUME Rounds, NEW d \in Registered, confirmation_state[d] = "pending",
         NEW u \in Urls, challenge_token[d] \in heard[u]
  PROVE  u = url[d]
<1>1. CurrentIssue(d, challenge_token[d]) \in issued
  BY DEF Rounds, RoundIsOpen
<1>2. PICK i \in issued : i.challenge = challenge_token[d] /\ i.url = u
  BY DEF Rounds, HeardWasIssued
<1>3. i = CurrentIssue(d, challenge_token[d])
  BY <1>1, <1>2 DEF Rounds, IssuesDiffer, CurrentIssue
<1> QED
  BY <1>2, <1>3 DEF CurrentIssue

\* An echo that some receiver could give keeps the rounds in order.
LEMMA EchoKeepsRounds ==
  ASSUME TypeOK, Rounds, NEW d \in Registered,
         NEW k \in Challenges \cup {Wrong},
         k \in Challenges => \E u \in Urls : k \in heard[u],
         ApplyEcho(d, k), UNCHANGED heard
  PROVE  RowsOK' /\ Rounds' /\ issued \subseteq issued' /\ UNCHANGED url
<1>0. d \in Dests /\ url[d] \in Urls
  BY DEF Registered, TypeOK
<1>1. CASE UNCHANGED <<destVars, historyVars>>
  BY <1>1 DEF destVars, historyVars, TypeOK, RowsOK, Rounds, IssuesDiffer,
       HeardWasIssued, UnregisteredIsPending, Registered, RoundIsOpen,
       CurrentIssue, ConfirmedAtLocation
<1>2. CASE ArmRound({d}, url, FALSE) /\ UNCHANGED <<url, proof>>
  <2>1. /\ {d} \in SUBSET Dests /\ FALSE \in BOOLEAN
        /\ url' \in [Dests -> Urls \cup {Null}]
        /\ \A e \in {d} : url'[e] = url[e] /\ url[e] \in Urls
        /\ \A e \in Dests \ {d} : url'[e] = url[e]
        /\ UNCHANGED <<heard, proof>>
    BY <1>0, <1>2 DEF TypeOK
  <2> QED
    BY <1>2, <2>1, ArmingKeepsRounds
<1>3. CASE confirmation_state[d] = "pending" /\ Confirm(d, k)
  <2>1. k \in Challenges /\ k = challenge_token[d]
    BY <1>0, <1>3, HandshakeAssumption DEF Confirm, TypeOK
  <2>2. k \in heard[url[d]]
    BY <1>3, <2>1, MatchIsHeardAtHome
  <2>3. CurrentIssue(d, k) \in issued
    BY <1>3, <2>1 DEF Rounds, RoundIsOpen
  <2>4. RowsOK'
    BY <1>0, <1>3, <2>1 DEF Confirm, TypeOK, RowsOK
  <2>5. IssuesDiffer' /\ HeardWasIssued'
    BY <1>3 DEF Confirm, Rounds, IssuesDiffer, HeardWasIssued
  <2>6. UnregisteredIsPending'
    BY <1>0, <1>3 DEF Confirm, Rounds, UnregisteredIsPending, Registered, TypeOK
  <2>7. RoundIsOpen'
    <3> SUFFICES ASSUME NEW e \in Registered',
                        confirmation_state'[e] = "pending"
                 PROVE  /\ CurrentIssue(e, challenge_token[e])' \in issued'
                        /\ challenge_expires_at'[e] # Null
      BY DEF RoundIsOpen
    <3>1. e \in Dests /\ e \in Registered /\ e # d
      BY <1>0, <1>3 DEF Confirm, Registered, TypeOK
    <3>2. /\ CurrentIssue(e, challenge_token[e])'
               = CurrentIssue(e, challenge_token[e])
          /\ challenge_expires_at'[e] = challenge_expires_at[e]
          /\ confirmation_state[e] = "pending"
          /\ issued' = issued
      BY <1>3, <3>1 DEF Confirm, CurrentIssue, TypeOK
    <3> QED
      BY <3>1, <3>2 DEF Rounds, RoundIsOpen
  <2>8. ConfirmedAtLocation'
    <3> SUFFICES ASSUME NEW e \in Dests, confirmation_state'[e] = "confirmed"
                 PROVE  /\ CurrentIssue(e, proof[e])' \in issued'
                        /\ proof'[e] \in heard'[url'[e]]
      BY DEF ConfirmedAtLocation
    <3>1. CASE e = d
      <4>1. proof'[e] = k /\ CurrentIssue(e, proof[e])' = CurrentIssue(d, k)
        BY <1>0, <1>3, <3>1 DEF Confirm, CurrentIssue, TypeOK
      <4> QED
        BY <1>3, <2>2, <2>3, <3>1, <4>1 DEF Confirm
    <3>2. CASE e # d
      <4>1. /\ CurrentIssue(e, proof[e])' = CurrentIssue(e, proof[e])
            /\ proof'[e] = proof[e]
            /\ confirmation_state[e] = "confirmed"
        BY <1>3, <3>2 DEF Confirm, CurrentIssue, TypeOK
      <4> QED
        BY <1>3, <4>1 DEF Confirm, Rounds, ConfirmedAtLocation
    <3> QED
      BY <3>1, <3>2
  <2> QED
    BY <1>3, <2>4, <2>5, <2>6, <2>7, <2>8 DEF Rounds, Confirm
<1> QED
  BY <1>1, <1>2, <1>3 DEF ApplyEcho

----------------------------------------------------------------------------
(***************************************************************************)
(* The steps.                                                              *)
(***************************************************************************)
\* What a confirmer carries stays good while challenges, registrations and
\* what receivers know only grow.
LEMMA GrowthKeepsProbes ==
  ASSUME Probes, UNCHANGED confirmerVars,
         issued \subseteq issued', Registered \subseteq Registered',
         \A u \in Urls : heard[u] \subseteq heard'[u]
  PROVE  Probes'
BY DEF Probes, ProbesFit, EchoesFit, confirmerVars

\* The rows do not change.
LEMMA QuietKeepsRounds ==
  ASSUME Rounds, UNCHANGED <<url, confirmation_state, challenge_token,
                             confirmation_round, confirmation_generation,
                             heard, historyVars>>,
         \A d \in Dests : challenge_expires_at[d] # Null
                            => challenge_expires_at'[d] # Null
  PROVE  Rounds'
BY DEF historyVars, Rounds, IssuesDiffer, HeardWasIssued,
     UnregisteredIsPending, Registered, RoundIsOpen, CurrentIssue,
     ConfirmedAtLocation

\* Endpoints and time.
LEMMA DestStepKeepsIInv ==
  ASSUME IInv, NEW d \in Dests, DestStep(d)
  PROVE  IInv'
<1>0. TypeOK /\ Rounds /\ Probes
  BY DEF IInv
<1>1. ASSUME NEW u \in Urls, RegisterDestination(d, u) \/ Relocate(d, u)
      PROVE  IInv'
  <2>1. PICK bump \in BOOLEAN : ArmRound({d}, url', bump)
    BY <1>1 DEF RegisterDestination, Relocate
  <2>2. /\ url' = [url EXCEPT ![d] = u]
        /\ UNCHANGED <<confirmerVars, heard, proof>>
    BY <1>1 DEF RegisterDestination, Relocate
  <2>3. /\ {d} \in SUBSET Dests
        /\ url' \in [Dests -> Urls \cup {Null}]
        /\ \A e \in {d} : url'[e] = url'[e] /\ url'[e] \in Urls
        /\ \A e \in Dests \ {d} : url'[e] = url[e]
        /\ UNCHANGED <<heard, proof>>
    BY <1>0, <2>2 DEF TypeOK
  <2>4. RowsOK' /\ Rounds' /\ issued \subseteq issued'
    BY <1>0, <2>1, <2>3, ArmingKeepsRounds
  <2>5. Registered \subseteq Registered'
    BY <1>0, <2>2, HandshakeAssumption DEF Registered, TypeOK
  <2>6. Probes'
    BY <1>0, <2>2, <2>4, <2>5, GrowthKeepsProbes
  <2>7. TypeOK'
    BY <1>0, <2>2, <2>3, <2>4 DEF TypeOK, RowsOK, confirmerVars
  <2> QED
    BY <2>4, <2>6, <2>7 DEF IInv
<1>2. CASE ReissueChallenge(d)
  <2>1. /\ {d} \in SUBSET Dests /\ FALSE \in BOOLEAN
        /\ url' \in [Dests -> Urls \cup {Null}]
        /\ \A e \in {d} : url'[e] = url[e] /\ url[e] \in Urls
        /\ \A e \in Dests \ {d} : url'[e] = url[e]
        /\ UNCHANGED <<heard, proof>>
    BY <1>0, <1>2 DEF ReissueChallenge, Registered, TypeOK
  <2>2. ArmRound({d}, url, FALSE) /\ UNCHANGED <<url, confirmerVars, heard>>
    BY <1>2 DEF ReissueChallenge
  <2>3. RowsOK' /\ Rounds' /\ issued \subseteq issued'
    BY <1>0, <2>1, <2>2, ArmingKeepsRounds
  <2>4. Probes'
    BY <1>0, <2>2, <2>3, GrowthKeepsProbes DEF Registered
  <2>5. TypeOK'
    BY <1>0, <2>1, <2>2, <2>3 DEF TypeOK, RowsOK, confirmerVars
  <2> QED
    BY <2>3, <2>4, <2>5 DEF IInv
<1>3. ASSUME NEW k \in Challenges \cup {Wrong}, ConfirmDestination(d, k)
      PROVE  IInv'
  <2>1. /\ d \in Registered
        /\ k \in Challenges => \E u \in Urls : k \in heard[u]
        /\ ApplyEcho(d, k)
        /\ UNCHANGED <<confirmerVars, heard>>
    BY <1>3, HandshakeAssumption DEF ConfirmDestination
  <2>2. RowsOK' /\ Rounds' /\ issued \subseteq issued' /\ UNCHANGED url
    BY <1>0, <2>1, EchoKeepsRounds
  <2>3. Probes'
    BY <1>0, <2>1, <2>2, GrowthKeepsProbes DEF Registered
  <2>4. TypeOK'
    BY <1>0, <2>1, <2>2 DEF TypeOK, RowsOK, confirmerVars
  <2> QED
    BY <2>2, <2>3, <2>4 DEF IInv
<1>4. CASE RoundElapses(d) \/ ProbeBackoffElapses(d)
  <2>1. TypeOK'
    BY <1>0, <1>4 DEF RoundElapses, ProbeBackoffElapses, TypeOK, confirmerVars,
         historyVars
  <2>2. \A e \in Dests : challenge_expires_at[e] # Null
                          => challenge_expires_at'[e] # Null
    BY <1>0, <1>4, HandshakeAssumption DEF RoundElapses, ProbeBackoffElapses, TypeOK
  <2>3. Rounds'
    BY <1>0, <1>4, <2>2, QuietKeepsRounds DEF RoundElapses, ProbeBackoffElapses
  <2>4. Probes'
    BY <1>0, <1>4, GrowthKeepsProbes DEF RoundElapses, ProbeBackoffElapses,
         Registered, historyVars
  <2> QED
    BY <2>1, <2>3, <2>4 DEF IInv
<1> QED
  BY <1>1, <1>2, <1>3, <1>4 DEF DestStep

\* The confirmer threads.
LEMMA ConfirmerStepKeepsIInv ==
  ASSUME IInv, NEW t \in Confirmers, ConfirmerStep(t)
  PROVE  IInv'
<1>0. TypeOK /\ Rounds /\ Probes
  BY DEF IInv
<1>1. CASE ExpireDueRounds(t)
  <2>1. /\ DueRounds \in SUBSET Dests /\ FALSE \in BOOLEAN
        /\ url' \in [Dests -> Urls \cup {Null}]
        /\ \A e \in DueRounds : url'[e] = url[e] /\ url[e] \in Urls
        /\ \A e \in Dests \ DueRounds : url'[e] = url[e]
        /\ UNCHANGED <<heard, proof>>
    BY <1>0, <1>1 DEF ExpireDueRounds, DueRounds, Registered, TypeOK
  <2>2. /\ ArmRound(DueRounds, url, FALSE)
        /\ pc' = [pc EXCEPT ![t] = "claim"]
        /\ UNCHANGED <<url, probe, echo, heard>>
    BY <1>1 DEF ExpireDueRounds
  <2>3. RowsOK' /\ Rounds' /\ issued \subseteq issued'
    BY <1>0, <2>1, <2>2, ArmingKeepsRounds
  <2>4. Probes'
    BY <1>0, <2>2, <2>3 DEF Probes, ProbesFit, EchoesFit, Registered, TypeOK
  <2>5. TypeOK'
    BY <1>0, <2>1, <2>2, <2>3 DEF TypeOK, RowsOK
  <2> QED
    BY <2>3, <2>4, <2>5 DEF IInv
<1>2. ASSUME NEW d \in Dests, ClaimProbe(t, d)
      PROVE  IInv'
  <2>1. /\ d \in Registered /\ url[d] \in Urls
        /\ CurrentIssue(d, challenge_token[d]) \in issued
    BY <1>0, <1>2 DEF ClaimProbe, Probeable, Registered, TypeOK, Rounds,
         RoundIsOpen
  <2>2. TypeOK'
    <3>1. [dest |-> d, url |-> url[d], challenge |-> challenge_token[d]] \in Probe
      BY <1>0, <2>1 DEF Probe, TypeOK
    <3> QED
      BY <1>0, <1>2, <3>1 DEF ClaimProbe, TypeOK, historyVars
  <2>3. Rounds'
    BY <1>0, <1>2, QuietKeepsRounds DEF ClaimProbe
  <2>4. Probes'
    <3>1. EchoesFit'
      BY <1>0, <1>2 DEF ClaimProbe, Probes, EchoesFit
    <3>2. ASSUME NEW s \in Confirmers, pc'[s] \in {"probing", "answered"}
          PROVE  /\ probe'[s].dest \in Registered'
                 /\ \E i \in issued' : /\ i.challenge = probe'[s].challenge
                                       /\ i.url = probe'[s].url
      <4>1. CASE s = t
        BY <1>0, <1>2, <2>1, <4>1 DEF ClaimProbe, Registered, historyVars,
             CurrentIssue, TypeOK
      <4>2. CASE s # t
        BY <1>0, <1>2, <3>2, <4>2 DEF ClaimProbe, Registered, historyVars,
             Probes, ProbesFit, TypeOK
      <4> QED
        BY <4>1, <4>2
    <3> QED
      BY <3>1, <3>2 DEF Probes, ProbesFit
  <2> QED
    BY <2>2, <2>3, <2>4 DEF IInv
<1>3. CASE NothingToProbe(t)
  <2>1. TypeOK'
    BY <1>0, <1>3 DEF NothingToProbe, destVars, historyVars, TypeOK
  <2>2. Rounds'
    BY <1>0, <1>3, QuietKeepsRounds DEF NothingToProbe, destVars
  <2>3. Probes'
    BY <1>0, <1>3 DEF NothingToProbe, destVars, historyVars, Probes,
         ProbesFit, EchoesFit, Registered, TypeOK
  <2> QED
    BY <2>1, <2>2, <2>3 DEF IInv
<1>4. CASE SendProbe(t)
  <2> DEFINE u == probe[t].url
             k == probe[t].challenge
             told == heard[u] \cup {k}
  <2>1. PICK i \in issued : i.challenge = k /\ i.url = u
    BY <1>0, <1>4 DEF SendProbe, Probes, ProbesFit
  <2>2. u \in Urls /\ k \in Challenges
    BY <1>0, <2>1 DEF TypeOK, Issue
  <2>3. /\ pc' = [pc EXCEPT ![t] = "answered"]
        /\ \/ /\ heard' = [heard EXCEPT ![u] = told]
              /\ \E x \in told \cup {Wrong, Null} : echo' = [echo EXCEPT ![t] = x]
           \/ UNCHANGED <<heard, echo>>
        /\ UNCHANGED <<destVars, probe, historyVars>>
    BY <1>4 DEF SendProbe, ProbeUrl
  <2>4. heard' \in [Urls -> SUBSET Challenges]
    BY <1>0, <2>2, <2>3 DEF TypeOK
  <2>5. \A v \in Urls : heard[v] \subseteq heard'[v]
    BY <1>0, <2>2, <2>3 DEF TypeOK
  <2>6. TypeOK'
    <3>1. echo' \in [Confirmers -> Challenges \cup {Wrong, Null}]
      BY <1>0, <2>2, <2>3 DEF TypeOK
    <3> QED
      BY <1>0, <2>3, <2>4, <3>1 DEF TypeOK, destVars, historyVars
  <2>7. HeardWasIssued'
    <3> SUFFICES ASSUME NEW v \in Urls, NEW x \in heard'[v]
                 PROVE  \E j \in issued : j.challenge = x /\ j.url = v
      BY <2>3 DEF HeardWasIssued, historyVars
    <3>1. CASE x \in heard[v]
      BY <1>0, <3>1 DEF Rounds, HeardWasIssued
    <3>2. CASE x \notin heard[v]
      <4>1. v = u /\ x = k
        BY <1>0, <2>2, <2>3, <3>2 DEF TypeOK
      <4> QED
        BY <2>1, <4>1
    <3> QED
      BY <3>1, <3>2
  <2>8. ConfirmedAtLocation'
    <3> SUFFICES ASSUME NEW d \in Dests, confirmation_state[d] = "confirmed"
                 PROVE  /\ CurrentIssue(d, proof[d]) \in issued
                        /\ proof[d] \in heard'[url[d]]
      BY <2>3 DEF ConfirmedAtLocation, CurrentIssue, destVars, historyVars
    <3>1. d \in Registered
      BY <1>0 DEF Rounds, UnregisteredIsPending
    <3>2. url[d] \in Urls
      BY <1>0, <3>1 DEF Registered, TypeOK
    <3> QED
      BY <1>0, <2>5, <3>2 DEF Rounds, ConfirmedAtLocation
  <2>9. Rounds'
    <3>1. IssuesDiffer' /\ UnregisteredIsPending' /\ RoundIsOpen'
      BY <1>0, <2>3 DEF Rounds, IssuesDiffer, UnregisteredIsPending,
           RoundIsOpen, CurrentIssue, Registered, destVars, historyVars
    <3> QED
      BY <2>7, <2>8, <3>1 DEF Rounds
  <2>10. ProbesFit'
    BY <1>0, <1>4, <2>3 DEF SendProbe, Probes, ProbesFit, Registered, destVars,
         historyVars, TypeOK
  <2>11. EchoesFit'
    <3> SUFFICES ASSUME NEW s \in Confirmers, echo'[s] \in Challenges
                 PROVE  \E v \in Urls : echo'[s] \in heard'[v]
      BY DEF EchoesFit
    <3>1. CASE echo'[s] = echo[s]
      BY <1>0, <2>5, <3>1 DEF Probes, EchoesFit
    <3>2. CASE echo'[s] # echo[s]
      <4>1. /\ s = t /\ heard' = [heard EXCEPT ![u] = told]
            /\ echo'[s] \in told \cup {Wrong, Null}
        BY <1>0, <2>3, <3>2 DEF TypeOK
      <4>2. heard'[u] = told
        BY <1>0, <2>2, <4>1 DEF TypeOK
      <4>3. echo'[s] \in told
        BY <4>1, HandshakeAssumption
      <4> QED
        BY <2>2, <4>2, <4>3
    <3> QED
      BY <3>1, <3>2
  <2> QED
    BY <2>6, <2>9, <2>10, <2>11 DEF IInv, Probes
<1>5. CASE RecordProbe(t)
  <2> DEFINE d == probe[t].dest
  <2>1. d \in Registered
    BY <1>0, <1>5 DEF RecordProbe, Probes, ProbesFit
  <2>2. /\ pc' = [pc EXCEPT ![t] = "expire"]
        /\ probe' = [probe EXCEPT ![t] = NoProbe]
        /\ echo' = [echo EXCEPT ![t] = Null]
        /\ UNCHANGED heard
    BY <1>5 DEF RecordProbe
  <2>3. RowsOK' /\ Rounds' /\ issued \subseteq issued' /\ UNCHANGED url
    <3>1. CASE echo[t] # Null /\ ApplyEcho(d, echo[t])
      <4>1. /\ echo[t] \in Challenges \cup {Wrong}
            /\ echo[t] \in Challenges => \E u \in Urls : echo[t] \in heard[u]
        BY <1>0, <3>1 DEF TypeOK, Probes, EchoesFit
      <4> QED
        BY <1>0, <2>1, <2>2, <3>1, <4>1, EchoKeepsRounds
    <3>2. CASE UNCHANGED <<destVars, historyVars>>
      <4>1. Rounds'
        BY <1>0, <2>2, <3>2, QuietKeepsRounds DEF destVars
      <4> QED
        BY <1>0, <3>2, <4>1 DEF destVars, historyVars, TypeOK, RowsOK
    <3> QED
      BY <1>5, <3>1, <3>2 DEF RecordProbe
  <2>4. TypeOK'
    <3>1. NoProbe \in Probe
      BY DEF NoProbe, Probe
    <3> QED
      BY <1>0, <2>2, <2>3, <3>1 DEF TypeOK, RowsOK
  <2>5. Probes'
    BY <1>0, <2>2, <2>3, HandshakeAssumption DEF Probes, ProbesFit, EchoesFit,
         Registered, TypeOK
  <2> QED
    BY <2>3, <2>4, <2>5 DEF IInv
<1> QED
  BY <1>1, <1>2, <1>3, <1>4, <1>5 DEF ConfirmerStep

----------------------------------------------------------------------------
(***************************************************************************)
(* The theorems.                                                           *)
(***************************************************************************)
\* The initial state satisfies the invariant.
LEMMA InitIInv == Init => IInv
<1> SUFFICES ASSUME Init PROVE IInv
  OBVIOUS
<1>1. TypeOK
  <2>1. NoProbe \in Probe
    BY DEF NoProbe, Probe
  <2> QED
    BY <2>1 DEF Init, TypeOK
<1>2. Rounds
  BY DEF Init, Rounds, IssuesDiffer, HeardWasIssued, UnregisteredIsPending,
       Registered, RoundIsOpen, ConfirmedAtLocation
<1>3. Probes
  BY HandshakeAssumption DEF Init, Probes, ProbesFit, EchoesFit
<1> QED
  BY <1>1, <1>2, <1>3 DEF IInv

\* The invariant holds throughout: rounds, probes and echoes fit together.
THEOREM HandshakeInvariant == Spec => []IInv
<1>1. IInv /\ [Next]_vars => IInv'
  <2> SUFFICES ASSUME IInv, [Next]_vars PROVE IInv'
    OBVIOUS
  <2>1. CASE Next
    BY <2>1, DestStepKeepsIInv, ConfirmerStepKeepsIInv DEF Next
  <2>2. CASE UNCHANGED vars
    <3>1. TypeOK'
      BY <2>2 DEF IInv, vars, destVars, confirmerVars, historyVars, TypeOK
    <3>2. Rounds'
      BY <2>2, QuietKeepsRounds DEF IInv, vars, destVars
    <3>3. Probes'
      BY <2>2 DEF IInv, vars, destVars, confirmerVars, historyVars, Probes,
           ProbesFit, EchoesFit, Registered
    <3> QED
      BY <3>1, <3>2, <3>3 DEF IInv
  <2> QED
    BY <2>1, <2>2
<1> QED
  BY <1>1, InitIInv, PTL DEF Spec

\* All variables keep their types.
THEOREM HandshakeTypes == Spec => []TypeOK
<1>1. IInv => TypeOK
  BY DEF IInv
<1> QED
  BY <1>1, HandshakeInvariant, PTL

\* Only the receiver at the present url, told the present challenge, confirms.
THEOREM OnlyTheLocationConfirms == Spec => []ConfirmedAtLocation
<1>1. IInv => ConfirmedAtLocation
  BY DEF IInv, Rounds
<1> QED
  BY <1>1, HandshakeInvariant, PTL

\* A probe that is overtaken by a relocation tells nobody a wrong challenge.
THEOREM ChallengesAreLocal == Spec => []ChallengesStayHome
<1>1. IInv => ChallengesStayHome
  BY DEF IInv, Rounds, HeardWasIssued, IssuesDiffer, ChallengesStayHome
<1> QED
  BY <1>1, HandshakeInvariant, PTL

\* An unconfirmed destination always has a round that can be answered.
THEOREM RoundsStayOpen == Spec => []RoundIsOpen
<1>1. IInv => RoundIsOpen
  BY DEF IInv, Rounds
<1> QED
  BY <1>1, HandshakeInvariant, PTL

\* arm_round confirms nothing.
LEMMA ArmingConfirmsNothing ==
  ASSUME TypeOK, NEW S, NEW at, NEW bump, ArmRound(S, at, bump),
         NEW d \in Dests, confirmation_state'[d] = "confirmed"
  PROVE  confirmation_state[d] = "confirmed"
BY DEF ArmRound

\* apply_echo confirms only while the round is open.
LEMMA EchoInTime ==
  ASSUME TypeOK, Rounds, NEW e \in Registered, NEW k, ApplyEcho(e, k),
         NEW d \in Dests, confirmation_state[d] = "pending",
         confirmation_state'[d] = "confirmed"
  PROVE  challenge_expires_at[d] = "future"
<1>1. CASE UNCHANGED destVars
  BY <1>1 DEF destVars
<1>2. CASE ArmRound({e}, url, FALSE)
  BY <1>2, ArmingConfirmsNothing
<1>3. CASE ~Overdue(e) /\ Confirm(e, k)
  <2>1. d = e
    BY <1>3 DEF Confirm, Registered, TypeOK
  <2>2. challenge_expires_at[d] # Null
    BY <2>1 DEF Rounds, RoundIsOpen
  <2> QED
    BY <1>3, <2>1, <2>2 DEF Overdue, TypeOK
<1> QED
  BY <1>1, <1>2, <1>3 DEF ApplyEcho

\* No late echo confirms, whether the confirmer has rotated the round or not.
THEOREM ConfirmationIsInTime == Spec => ConfirmedInTime
<1>1. ASSUME IInv, Next, NEW d \in Dests, confirmation_state[d] = "pending",
             confirmation_state'[d] = "confirmed"
      PROVE  challenge_expires_at[d] = "future"
  <2>0. TypeOK /\ Rounds /\ Probes
    BY <1>1 DEF IInv
  <2>1. ASSUME NEW e \in Dests, DestStep(e)
        PROVE  challenge_expires_at[d] = "future"
    <3>1. CASE \E u \in Urls : RegisterDestination(e, u) \/ Relocate(e, u)
      BY <1>1, <2>0, <3>1, ArmingConfirmsNothing DEF RegisterDestination, Relocate
    <3>2. CASE ReissueChallenge(e)
      BY <1>1, <2>0, <3>2, ArmingConfirmsNothing DEF ReissueChallenge
    <3>3. CASE \E k \in Challenges \cup {Wrong} : ConfirmDestination(e, k)
      BY <1>1, <2>0, <3>3, EchoInTime DEF ConfirmDestination
    <3>4. CASE RoundElapses(e) \/ ProbeBackoffElapses(e)
      BY <1>1, <3>4 DEF RoundElapses, ProbeBackoffElapses
    <3> QED
      BY <2>1, <3>1, <3>2, <3>3, <3>4 DEF DestStep
  <2>2. ASSUME NEW t \in Confirmers, ConfirmerStep(t)
        PROVE  challenge_expires_at[d] = "future"
    <3>1. CASE ExpireDueRounds(t)
      BY <1>1, <2>0, <3>1, ArmingConfirmsNothing DEF ExpireDueRounds
    <3>2. CASE (\E e \in Dests : ClaimProbe(t, e)) \/ NothingToProbe(t)
                 \/ SendProbe(t)
      BY <1>1, <3>2 DEF ClaimProbe, NothingToProbe, SendProbe, destVars
    <3>3. CASE RecordProbe(t)
      <4>1. probe[t].dest \in Registered
        BY <2>0, <3>3 DEF RecordProbe, Probes, ProbesFit
      <4> QED
        BY <1>1, <2>0, <3>3, <4>1, EchoInTime DEF RecordProbe, destVars
    <3> QED
      BY <2>2, <3>1, <3>2, <3>3 DEF ConfirmerStep
  <2> QED
    BY <1>1, <2>1, <2>2 DEF Next
<1>2. IInv /\ [Next]_vars =>
        [\A d \in Dests :
           confirmation_state[d] = "pending" /\ confirmation_state'[d] = "confirmed"
             => challenge_expires_at[d] = "future"]_vars
  BY <1>1
<1> QED
  BY <1>2, HandshakeInvariant, PTL DEF Spec, ConfirmedInTime
============================================================================
