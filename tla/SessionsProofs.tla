---------------------------- MODULE SessionsProofs ----------------------------
(***************************************************************************)
(* Proofs about Sessions, for any configurations and profiles and any size  *)
(* of the monitor's buffer.                                                 *)
(***************************************************************************)
EXTENDS Sessions, FiniteSetTheorems, TLAPS

\* The client at hand is one of the monitor's own configuration, and a monitor
\* about to insert has seen no open session and is alone in writing one.
AtHand ==
    \A c \in Configs :
        /\ watch[c] \in {"find", "write"} => cur[c] \in Of(c)
        /\ watch[c] = "write" /\ conn[c] /\ ~has[c] => open[cur[c]] = 0

\* The inductive invariant.
Single == TypeOK /\ OneOpenSession /\ AtHand

\* No client, no line, no session: the start is fine.
LEMMA SingleInit == Init => Single
  BY NoneAssumption, ConfigOfAssumption
  DEF Init, Single, TypeOK, OneOpenSession, AtHand, CyclePC, Of

\* Every step of the monitors, the servers, the clients and the web tier keeps
\* the types and the configuration of the clients a monitor handles.
LEMMA TypeStep == TypeOK /\ AtHand /\ [Next]_vars => TypeOK'
<1>. SUFFICES ASSUME TypeOK, AtHand, [Next]_vars PROVE TypeOK'
  OBVIOUS
<1>. USE ConfigOfAssumption
     DEF TypeOK, CyclePC, Of, tableVars, serverVars, cycleVars, Goto, GotoNext
<1>1. ASSUME NEW c \in Configs, Poll(c) PROVE TypeOK'
  BY <1>1 DEF Poll, Replies, Asked, On
<1>2. ASSUME NEW c \in Configs, PollCut(c) PROVE TypeOK'
  BY <1>2 DEF PollCut, Asked, On
<1>3. ASSUME NEW c \in Configs, NEW p \in Profiles, Look(c, p) PROVE TypeOK'
  <2>1. CASE conn[c] /\ profile[p] = "kept"
    BY <1>3, <2>1 DEF Look
  <2>2. CASE ~(conn[c] /\ profile[p] = "kept")
    BY <1>3, <2>2 DEF Look
  <2>. QED  BY <2>1, <2>2
<1>4. ASSUME NEW c \in Configs, Find(c) PROVE TypeOK'
  <2>1. (conn[c] /\ open[cur[c]] > 0) \in BOOLEAN
    BY ONLY Zenon
  <2>. QED  BY <1>4, <2>1 DEF Find
<1>5. ASSUME NEW c \in Configs, Write(c) PROVE TypeOK'
  <2>1. cur[c] \in Profiles
    BY <1>5 DEF Write, AtHand
  <2>. QED  BY <1>5, <2>1 DEF Write
<1>6. ASSUME NEW c \in Configs, Sweep(c) PROVE TypeOK'
  BY <1>6 DEF Sweep
<1>7. ASSUME NEW c \in Configs, Leave(c) PROVE TypeOK'
  BY <1>7 DEF Leave
<1>8. ASSUME NEW c \in Configs, Start(c) PROVE TypeOK'
  BY <1>8 DEF Start
<1>9. ASSUME NEW c \in Configs, Stop(c) PROVE TypeOK'
  BY <1>9 DEF Stop
<1>10. ASSUME NEW c \in Configs, ConnLost(c) PROVE TypeOK'
  BY <1>10 DEF ConnLost
<1>11. ASSUME NEW c \in Configs, WebDelete(c) PROVE TypeOK'
  BY <1>11 DEF WebDelete
<1>12. ASSUME NEW p \in Profiles, Issue(p) PROVE TypeOK'
  BY <1>12 DEF Issue
<1>13. ASSUME NEW p \in Profiles, Connect(p) PROVE TypeOK'
  BY <1>13 DEF Connect
<1>14. ASSUME NEW p \in Profiles, Disconnect(p) PROVE TypeOK'
  BY <1>14 DEF Disconnect
<1>15. CASE UNCHANGED vars
  BY <1>15 DEF vars
<1>. QED
  BY <1>1, <1>2, <1>3, <1>4, <1>5, <1>6, <1>7, <1>8, <1>9, <1>10, <1>11, <1>12,
     <1>13, <1>14, <1>15
  DEF Next, Work

\* Every step keeps one open session per profile, and keeps what the monitors
\* know of the client at hand.
LEMMA SingleStep == Single /\ [Next]_vars => (OneOpenSession /\ AtHand)'
<1>. SUFFICES ASSUME Single, [Next]_vars PROVE (OneOpenSession /\ AtHand)'
  OBVIOUS
<1>. USE ConfigOfAssumption
     DEF Single, TypeOK, OneOpenSession, AtHand, CyclePC, Of, tableVars, serverVars,
         cycleVars, Goto, GotoNext
<1>1. ASSUME NEW c \in Configs, Poll(c) PROVE (OneOpenSession /\ AtHand)'
  BY <1>1 DEF Poll, Asked
<1>2. ASSUME NEW c \in Configs, PollCut(c) PROVE (OneOpenSession /\ AtHand)'
  BY <1>2 DEF PollCut, Asked
<1>3. ASSUME NEW c \in Configs, NEW p \in Profiles, Look(c, p) PROVE (OneOpenSession /\ AtHand)'
  BY <1>3 DEF Look
<1>4. ASSUME NEW c \in Configs, Find(c) PROVE (OneOpenSession /\ AtHand)'
  BY <1>4 DEF Find
<1>5. ASSUME NEW c \in Configs, Write(c) PROVE (OneOpenSession /\ AtHand)'
  BY <1>5 DEF Write
<1>6. ASSUME NEW c \in Configs, Sweep(c) PROVE (OneOpenSession /\ AtHand)'
  BY <1>6 DEF Sweep
<1>7. ASSUME NEW c \in Configs, Leave(c) PROVE (OneOpenSession /\ AtHand)'
  BY <1>7 DEF Leave
<1>8. ASSUME NEW c \in Configs, Start(c) PROVE (OneOpenSession /\ AtHand)'
  BY <1>8 DEF Start
<1>9. ASSUME NEW c \in Configs, Stop(c) PROVE (OneOpenSession /\ AtHand)'
  BY <1>9 DEF Stop
<1>10. ASSUME NEW c \in Configs, ConnLost(c) PROVE (OneOpenSession /\ AtHand)'
  BY <1>10 DEF ConnLost
<1>11. ASSUME NEW c \in Configs, WebDelete(c) PROVE (OneOpenSession /\ AtHand)'
  BY <1>11 DEF WebDelete
<1>12. ASSUME NEW p \in Profiles, Issue(p) PROVE (OneOpenSession /\ AtHand)'
  BY <1>12 DEF Issue
<1>13. ASSUME NEW p \in Profiles, Connect(p) PROVE (OneOpenSession /\ AtHand)'
  BY <1>13 DEF Connect
<1>14. ASSUME NEW p \in Profiles, Disconnect(p) PROVE (OneOpenSession /\ AtHand)'
  BY <1>14 DEF Disconnect
<1>15. CASE UNCHANGED vars
  BY <1>15 DEF vars
<1>. QED
  BY <1>1, <1>2, <1>3, <1>4, <1>5, <1>6, <1>7, <1>8, <1>9, <1>10, <1>11, <1>12,
     <1>13, <1>14, <1>15
  DEF Next, Work

\* The inductive invariant holds in every reachable state.
LEMMA SingleAlways == Spec => []Single
<1>1. Single /\ [Next]_vars => Single'
  BY TypeStep, SingleStep DEF Single
<1>. QED  BY SingleInit, <1>1, PTL DEF Spec

\* A monitor only handles clients of its own configuration.
THEOREM SessionTypes == Spec => []TypeOK
<1>1. Single => TypeOK
  BY DEF Single
<1>. QED  BY SingleAlways, <1>1, PTL

\* A profile never has two open sessions, whatever stops, breaks or is deleted
\* between update_sessions' SELECT and its INSERT.
THEOREM SessionUnique == Spec => []OneOpenSession
<1>1. Single => OneOpenSession
  BY DEF Single
<1>. QED  BY SingleAlways, <1>1, PTL

-----------------------------------------------------------------------------
(* Why a complete reply never closes the session of a client that is there. *)

\* Between two cycles a monitor holds nothing; when it sweeps, every line has
\* been worked off.
Rested ==
    \A c \in Configs :
        /\ watch[c] \in {"off", "head"} => /\ lines[c] = {} /\ seen[c] = {}
                                            /\ steady[c] = {}
        /\ watch[c] = "sweep" => lines[c] = {}

\* Who is connected was issued a certificate, and who stayed is connected; an
\* open session with a configuration has a profile.
Backed ==
    /\ \A p \in on : profile[p] # "none"
    /\ \A c \in Configs : steady[c] \subseteq On(c)
    /\ \A p \in Profiles : open[p] > 0 => profile[p] = "kept"

\* What was received fits the buffer, so online_profiles never fills up.
Fits == \A c \in Configs : Cardinality(lines[c] \union seen[c]) <= Room

\* A client that a complete reply showed is still to be worked off or is in
\* online_profiles.
Remembered ==
    \A c \in Configs : \A p \in steady[c] :
        conn[c] /\ profile[p] = "kept" => p \in lines[c] \union seen[c]

\* The inductive invariant of ClosedOnlyIfAway.
Faithful == Single /\ Rested /\ Backed /\ Fits /\ Remembered

\* At the start nobody is connected and no monitor runs.
LEMMA FaithfulInit == Init => Faithful
  BY SingleInit, FS_EmptySet, RoomAssumption
  DEF Init, Faithful, Rested, Backed, Fits, Remembered

\* A monitor ends each cycle with nothing left over.
LEMMA RestedStep == Single /\ Rested /\ [Next]_vars => Rested'
<1>. SUFFICES ASSUME Single, Rested, [Next]_vars PROVE Rested'
  OBVIOUS
<1>. USE ConfigOfAssumption
     DEF Single, TypeOK, AtHand, CyclePC, Of, tableVars, serverVars, cycleVars, Goto, GotoNext
<1>. USE DEF Rested
<1>1. ASSUME NEW c \in Configs, Poll(c) PROVE Rested'
  BY <1>1 DEF Poll, Asked
<1>2. ASSUME NEW c \in Configs, PollCut(c) PROVE Rested'
  BY <1>2 DEF PollCut, Asked
<1>3. ASSUME NEW c \in Configs, NEW p \in Profiles, Look(c, p) PROVE Rested'
  BY <1>3 DEF Look
<1>4. ASSUME NEW c \in Configs, Find(c) PROVE Rested'
  BY <1>4 DEF Find
<1>5. ASSUME NEW c \in Configs, Write(c) PROVE Rested'
  BY <1>5 DEF Write
<1>6. ASSUME NEW c \in Configs, Sweep(c) PROVE Rested'
  BY <1>6 DEF Sweep
<1>7. ASSUME NEW c \in Configs, Leave(c) PROVE Rested'
  BY <1>7 DEF Leave
<1>8. ASSUME NEW c \in Configs, Start(c) PROVE Rested'
  BY <1>8 DEF Start
<1>9. ASSUME NEW c \in Configs, Stop(c) PROVE Rested'
  BY <1>9 DEF Stop
<1>10. ASSUME NEW c \in Configs, ConnLost(c) PROVE Rested'
  BY <1>10 DEF ConnLost
<1>11. ASSUME NEW c \in Configs, WebDelete(c) PROVE Rested'
  BY <1>11 DEF WebDelete
<1>12. ASSUME NEW p \in Profiles, Issue(p) PROVE Rested'
  BY <1>12 DEF Issue
<1>13. ASSUME NEW p \in Profiles, Connect(p) PROVE Rested'
  BY <1>13 DEF Connect
<1>14. ASSUME NEW p \in Profiles, Disconnect(p) PROVE Rested'
  BY <1>14 DEF Disconnect
<1>15. CASE UNCHANGED vars
  BY <1>15 DEF vars
<1>. QED
  BY <1>1, <1>2, <1>3, <1>4, <1>5, <1>6, <1>7, <1>8, <1>9, <1>10, <1>11, <1>12,
     <1>13, <1>14, <1>15
  DEF Next, Work

\* Connections, certificates and open sessions stay consistent.
LEMMA BackedStep == Single /\ Rested /\ Backed /\ [Next]_vars => Backed'
<1>. SUFFICES ASSUME Single, Rested, Backed, [Next]_vars PROVE Backed'
  OBVIOUS
<1>. USE ConfigOfAssumption
     DEF Single, TypeOK, AtHand, CyclePC, Of, tableVars, serverVars, cycleVars, Goto, GotoNext
<1>. USE DEF Rested, Backed, On
<1>1. ASSUME NEW c \in Configs, Poll(c) PROVE Backed'
  BY <1>1 DEF Poll, Asked
<1>2. ASSUME NEW c \in Configs, PollCut(c) PROVE Backed'
  BY <1>2 DEF PollCut, Asked
<1>3. ASSUME NEW c \in Configs, NEW p \in Profiles, Look(c, p) PROVE Backed'
  BY <1>3 DEF Look
<1>4. ASSUME NEW c \in Configs, Find(c) PROVE Backed'
  BY <1>4 DEF Find
<1>5. ASSUME NEW c \in Configs, Write(c) PROVE Backed'
  BY <1>5 DEF Write
<1>6. ASSUME NEW c \in Configs, Sweep(c) PROVE Backed'
  BY <1>6 DEF Sweep
<1>7. ASSUME NEW c \in Configs, Leave(c) PROVE Backed'
  BY <1>7 DEF Leave
<1>8. ASSUME NEW c \in Configs, Start(c) PROVE Backed'
  BY <1>8 DEF Start
<1>9. ASSUME NEW c \in Configs, Stop(c) PROVE Backed'
  BY <1>9 DEF Stop
<1>10. ASSUME NEW c \in Configs, ConnLost(c) PROVE Backed'
  BY <1>10 DEF ConnLost
<1>11. ASSUME NEW c \in Configs, WebDelete(c) PROVE Backed'
  BY <1>11 DEF WebDelete
<1>12. ASSUME NEW p \in Profiles, Issue(p) PROVE Backed'
  BY <1>12 DEF Issue
<1>13. ASSUME NEW p \in Profiles, Connect(p) PROVE Backed'
  BY <1>13 DEF Connect
<1>14. ASSUME NEW p \in Profiles, Disconnect(p) PROVE Backed'
  BY <1>14 DEF Disconnect
<1>15. CASE UNCHANGED vars
  BY <1>15 DEF vars
<1>. QED
  BY <1>1, <1>2, <1>3, <1>4, <1>5, <1>6, <1>7, <1>8, <1>9, <1>10, <1>11, <1>12,
     <1>13, <1>14, <1>15
  DEF Next, Work

\* A part of what fits the buffer fits it.
LEMMA PartFits ==
    ASSUME NEW S \in SUBSET Profiles, NEW T \in SUBSET S, Cardinality(S) <= Room
    PROVE  Cardinality(T) <= Room
<1>1. IsFiniteSet(S)
  BY ProfilesAssumption, FS_Subset
<1>2. IsFiniteSet(T) /\ Cardinality(T) <= Cardinality(S)
  BY <1>1, FS_Subset
<1>3. Cardinality(S) \in Nat /\ Cardinality(T) \in Nat
  BY <1>1, <1>2, FS_CardinalityType
<1>. QED  BY <1>2, <1>3, RoomAssumption

\* A proper part of what fits the buffer leaves room in online_profiles.
LEMMA PartLeavesRoom ==
    ASSUME NEW S \in SUBSET Profiles, NEW T \in SUBSET S, T # S, Cardinality(S) <= Room
    PROVE  Cardinality(T) < MaxOnline
<1>1. IsFiniteSet(S)
  BY ProfilesAssumption, FS_Subset
<1>2. IsFiniteSet(T) /\ Cardinality(T) <= Cardinality(S) /\ Cardinality(T) # Cardinality(S)
  BY <1>1, FS_Subset
<1>3. Cardinality(S) \in Nat /\ Cardinality(T) \in Nat
  BY <1>1, <1>2, FS_CardinalityType
<1>. QED  BY <1>2, <1>3, RoomAssumption

\* A reply is no longer than the buffer, and working it off adds nothing.
LEMMA FitsStep == Single /\ Rested /\ Fits /\ [Next]_vars => Fits'
<1>. SUFFICES ASSUME Single, Rested, Fits, [Next]_vars PROVE Fits'
  OBVIOUS
<1>. USE ConfigOfAssumption
     DEF Single, TypeOK, AtHand, CyclePC, Of, tableVars, serverVars, cycleVars, Goto, GotoNext
<1>. USE DEF Rested, Fits
<1>1. ASSUME NEW c \in Configs, Poll(c) PROVE Fits'
  <2>1. Cardinality(On(c)) <= Room \/ Cardinality(On(c)) > Room
    <3>1. IsFiniteSet(On(c))
      BY ProfilesAssumption, FS_Subset DEF On
    <3>. QED  BY <3>1, FS_CardinalityType, RoomAssumption
  <2>2. PICK S \in Replies(c) : Asked(c, S, IF S = On(c) THEN S ELSE {})
    BY <1>1 DEF Poll
  <2>3. Cardinality(S) <= Room
    BY <2>1, <2>2, RoomAssumption DEF Replies
  <2>4. S \union seen[c] = S
    BY <2>2 DEF Asked
  <2>. QED  BY <2>2, <2>3, <2>4 DEF Asked
<1>2. ASSUME NEW c \in Configs, PollCut(c) PROVE Fits'
  <2>1. PICK S \in SUBSET On(c) : Cardinality(S) <= Room /\ Asked(c, S, {})
    BY <1>2 DEF PollCut
  <2>2. S \union seen[c] = S
    BY <2>1 DEF Asked
  <2>. QED  BY <2>1, <2>2 DEF Asked
<1>3. ASSUME NEW c \in Configs, NEW p \in Profiles, Look(c, p) PROVE Fits'
  <2>1. lines[c] \union seen[c] \in SUBSET Profiles /\ Cardinality(lines[c] \union seen[c]) <= Room
    OBVIOUS
  <2>2. lines'[c] \union seen'[c] \in SUBSET (lines[c] \union seen[c])
    BY <1>3 DEF Look
  <2>3. Cardinality(lines'[c] \union seen'[c]) <= Room
    BY ONLY <2>1, <2>2, PartFits
  <2>4. \A d \in Configs \ {c} : lines'[d] = lines[d] /\ seen'[d] = seen[d]
    BY <1>3 DEF Look
  <2>. QED  BY <2>3, <2>4
<1>4. ASSUME NEW c \in Configs, Find(c) PROVE Fits'
  BY <1>4 DEF Find
<1>5. ASSUME NEW c \in Configs, Write(c) PROVE Fits'
  BY <1>5 DEF Write
<1>6. ASSUME NEW c \in Configs, Sweep(c) PROVE Fits'
  <2>1. lines'[c] \union seen'[c] = {}
    BY <1>6 DEF Sweep
  <2>2. Cardinality({}) <= Room
    BY FS_EmptySet, RoomAssumption
  <2>3. \A d \in Configs \ {c} : lines'[d] = lines[d] /\ seen'[d] = seen[d]
    BY <1>6 DEF Sweep
  <2>. QED  BY <2>1, <2>2, <2>3
<1>7. ASSUME NEW c \in Configs, Leave(c) PROVE Fits'
  BY <1>7 DEF Leave
<1>8. ASSUME NEW c \in Configs, Start(c) PROVE Fits'
  BY <1>8 DEF Start
<1>9. ASSUME NEW c \in Configs, Stop(c) PROVE Fits'
  BY <1>9 DEF Stop
<1>10. ASSUME NEW c \in Configs, ConnLost(c) PROVE Fits'
  BY <1>10 DEF ConnLost
<1>11. ASSUME NEW c \in Configs, WebDelete(c) PROVE Fits'
  BY <1>11 DEF WebDelete
<1>12. ASSUME NEW p \in Profiles, Issue(p) PROVE Fits'
  BY <1>12 DEF Issue
<1>13. ASSUME NEW p \in Profiles, Connect(p) PROVE Fits'
  BY <1>13 DEF Connect
<1>14. ASSUME NEW p \in Profiles, Disconnect(p) PROVE Fits'
  BY <1>14 DEF Disconnect
<1>15. CASE UNCHANGED vars
  BY <1>15 DEF vars
<1>. QED
  BY <1>1, <1>2, <1>3, <1>4, <1>5, <1>6, <1>7, <1>8, <1>9, <1>10, <1>11, <1>12,
     <1>13, <1>14, <1>15
  DEF Next, Work

\* The clients of a complete reply reach online_profiles: the array is larger
\* than the buffer, and nobody else takes lines from the reply.
LEMMA RememberedStep ==
    Single /\ Rested /\ Backed /\ Fits /\ Remembered /\ [Next]_vars => Remembered'
<1>. SUFFICES ASSUME Single, Rested, Backed, Fits, Remembered, [Next]_vars
              PROVE  Remembered'
  OBVIOUS
<1>. USE ConfigOfAssumption
     DEF Single, TypeOK, AtHand, CyclePC, Of, tableVars, serverVars, cycleVars, Goto, GotoNext
<1>. USE DEF Rested, Backed, Remembered, On
<1>1. ASSUME NEW c \in Configs, Poll(c) PROVE Remembered'
  BY <1>1 DEF Poll, Asked, Replies, On
<1>2. ASSUME NEW c \in Configs, PollCut(c) PROVE Remembered'
  BY <1>2 DEF PollCut, Asked
<1>3. ASSUME NEW c \in Configs, NEW p \in Profiles, Look(c, p) PROVE Remembered'
  <2>1. lines[c] \union seen[c] \in SUBSET Profiles /\ Cardinality(lines[c] \union seen[c]) <= Room
    BY DEF Fits
  <2>2. p \notin seen[c] => seen[c] # lines[c] \union seen[c]
    BY <1>3 DEF Look
  <2>3. p \in seen[c] \/ Cardinality(seen[c]) < MaxOnline
    BY ONLY <2>1, <2>2, PartLeavesRoom
  <2>4. conn[c] /\ profile[p] = "kept" => p \in seen'[c]
    BY <1>3, <2>3 DEF Look
  <2>5. seen[c] \subseteq seen'[c]
    BY <1>3 DEF Look
  <2>. QED  BY <1>3, <2>4, <2>5 DEF Look
<1>4. ASSUME NEW c \in Configs, Find(c) PROVE Remembered'
  BY <1>4 DEF Find
<1>5. ASSUME NEW c \in Configs, Write(c) PROVE Remembered'
  BY <1>5 DEF Write
<1>6. ASSUME NEW c \in Configs, Sweep(c) PROVE Remembered'
  BY <1>6 DEF Sweep
<1>7. ASSUME NEW c \in Configs, Leave(c) PROVE Remembered'
  BY <1>7 DEF Leave
<1>8. ASSUME NEW c \in Configs, Start(c) PROVE Remembered'
  BY <1>8 DEF Start
<1>9. ASSUME NEW c \in Configs, Stop(c) PROVE Remembered'
  BY <1>9 DEF Stop
<1>10. ASSUME NEW c \in Configs, ConnLost(c) PROVE Remembered'
  BY <1>10 DEF ConnLost
<1>11. ASSUME NEW c \in Configs, WebDelete(c) PROVE Remembered'
  BY <1>11 DEF WebDelete
<1>12. ASSUME NEW p \in Profiles, Issue(p) PROVE Remembered'
  BY <1>12 DEF Issue
<1>13. ASSUME NEW p \in Profiles, Connect(p) PROVE Remembered'
  BY <1>13 DEF Connect
<1>14. ASSUME NEW p \in Profiles, Disconnect(p) PROVE Remembered'
  BY <1>14 DEF Disconnect
<1>15. CASE UNCHANGED vars
  BY <1>15 DEF vars
<1>. QED
  BY <1>1, <1>2, <1>3, <1>4, <1>5, <1>6, <1>7, <1>8, <1>9, <1>10, <1>11, <1>12,
     <1>13, <1>14, <1>15
  DEF Next, Work

\* All parts hold in every reachable state.
LEMMA FaithfulAlways == Spec => []Faithful
<1>1. Faithful /\ [Next]_vars => Faithful'
  BY TypeStep, SingleStep, RestedStep, BackedStep, FitsStep, RememberedStep
  DEF Faithful, Single
<1>. QED  BY FaithfulInit, <1>1, PTL DEF Spec

\* A session is closed only when its client is away, or was missing from a reply
\* that did not fit the monitor's buffer.
THEOREM ClosedRightly == Spec => ClosedOnlyIfAway
<1>. DEFINE Rightly ==
       \A p \in Profiles :
         open[p] > 0 /\ open'[p] = 0 /\ p \in steady[ConfigOf[p]] => p \in stranded'
<1>1. Faithful /\ [Next]_vars => [Rightly]_vars
  <2>. SUFFICES ASSUME Faithful, [Next]_vars,
                       NEW p \in Profiles, open[p] > 0, open'[p] = 0,
                       p \in steady[ConfigOf[p]]
                PROVE  p \in stranded'
    OBVIOUS
  <2>. USE ConfigOfAssumption DEF Faithful, Single, TypeOK, Of
  <2>1. ASSUME NEW c \in Configs, Sweep(c) PROVE FALSE
    BY <2>1 DEF Sweep, Rested, Backed, Remembered
  <2>2. ASSUME NEW c \in Configs, WebDelete(c) PROVE p \in stranded'
    BY <2>2 DEF WebDelete
  <2>3. ASSUME NEW c \in Configs, Write(c) PROVE FALSE
    <3>1. cur[c] \in Profiles
      BY <2>3 DEF Write, AtHand
    <3>. QED  BY <2>3, <3>1 DEF Write
  <2>4. UNCHANGED open => FALSE
    OBVIOUS
  <2>. QED
    BY <2>1, <2>2, <2>3, <2>4
    DEF Next, Work, Poll, PollCut, Asked, Look, Find, Leave, Start, Stop, ConnLost, Issue,
        Connect, Disconnect, tableVars, vars
<1>. QED  BY FaithfulAlways, <1>1, PTL DEF Spec, ClosedOnlyIfAway
-----------------------------------------------------------------------------
(* Sessions implements Presence.                                            *)

\* Who is due a session depends only on who is connected, on the lines left and on
\* the client at hand.
LEMMA DueStays == ASSUME UNCHANGED <<on, lines, cur>> PROVE Due' = Due
  BY DEF Due

\* Who may not lose a session depends only on who stayed.
LEMMA SureStays == ASSUME UNCHANGED steady PROVE Sure' = Sure
  BY DEF Sure

\* Who is sure of the session is connected.
LEMMA SureIsOn ==
    ASSUME Backed
    PROVE  Sure \subseteq on
  BY ConfigOfAssumption DEF Backed, Sure, On

\* Nobody else becomes due a session when a reply is worked off.
LEMMA LapseIs ==
    ASSUME on' \subseteq Profiles, Due' \subseteq Due
    PROVE  Presented!Lapse
<1>1. on' \subseteq Due'
  BY DEF Due
<1>2. Due' \in SUBSET Due /\ Due' = on' \union Due'
  BY <1>1
<1>. QED  BY <1>2 DEF Presented!Lapse

\* At the start nobody is connected.
LEMMA PresentedInit == Init => Presented!Init
<1>. SUFFICES ASSUME Init PROVE Presented!Init
  OBVIOUS
<1>1. Due = {} /\ Sure = {}
  BY ConfigOfAssumption, NoneAssumption DEF Init, Due, Sure
<1>. QED  BY <1>1 DEF Init, Presented!Init

\* Every step maps to a step of Presence or to a stutter.
LEMMA PresentedStep ==
    ASSUME Faithful, Faithful', [Next]_vars
    PROVE  [Presented!Next]_(Presented!vars)
<1>. DEFINE Goal == [Presented!Next]_(Presented!vars)
<1>. USE ConfigOfAssumption DEF Faithful, Single, TypeOK, tableVars, serverVars, cycleVars
<1>0. /\ on \subseteq Profiles /\ on' \subseteq Profiles
      /\ \A c \in Configs : Of(c) \subseteq Profiles /\ On(c) \subseteq Of(c)
  BY DEF Of, On
<1>1. ASSUME NEW c \in Configs, Poll(c) PROVE Goal
  <2>1. PICK S \in Replies(c) : Asked(c, S, IF S = On(c) THEN S ELSE {})
    BY <1>1 DEF Poll
  <2>. DEFINE T == IF S = On(c) THEN S ELSE {}
  <2>2. S \subseteq On(c) /\ T \subseteq On(c)
    BY DEF Replies
  <2>3. watch[c] = "head" /\ lines' = [lines EXCEPT ![c] = S] /\ steady' = [steady EXCEPT ![c] = T]
        /\ UNCHANGED <<open, profile, stranded, on, cur>>
    BY <1>1, <2>1 DEF Poll, Asked
  <2>. HIDE DEF T
  <2>4. lines[c] = {} /\ steady[c] = {}
    BY <2>3 DEF Rested
  <2>5. Due' = Due
    BY <1>0, <2>2, <2>3, <2>4 DEF Due, On
  <2>6. Sure' = Sure \union T
    BY <1>0, <2>2, <2>3, <2>4 DEF Sure, Of
  <2>7. T \subseteq on /\ T \in SUBSET Profiles
    BY <1>0, <2>2 DEF On
  <2>8. Presented!See(T)
    BY <2>3, <2>5, <2>6, <2>7 DEF Presented!See, Presented!rowVars
  <2>. QED  BY <2>7, <2>8 DEF Presented!Next
<1>2. ASSUME NEW c \in Configs, PollCut(c) PROVE Goal
  <2>1. PICK S \in SUBSET On(c) : Asked(c, S, {})
    BY <1>2 DEF PollCut
  <2>2. watch[c] = "head" /\ lines' = [lines EXCEPT ![c] = S] /\ steady' = [steady EXCEPT ![c] = {}]
        /\ on' = on \ Of(c) /\ UNCHANGED <<open, profile, stranded, cur>>
    BY <1>2, <2>1 DEF PollCut, Asked
  <2>3. lines[c] = {}
    BY <2>2 DEF Rested
  <2>4. Due' \subseteq Due
    BY <1>0, <2>2, <2>3 DEF Due, On
  <2>5. Presented!Lapse
    BY <1>0, <2>4, LapseIs
  <2>6. Sure' = Sure \ Of(c)
    BY <2>2 DEF Sure, Of
  <2>7. Sure \ Of(c) = Sure \ On(c)
    BY SureIsOn DEF On
  <2>8. on' = on \ On(c) /\ On(c) \subseteq on
    BY <2>2 DEF On
  <2>9. Presented!Go(On(c))
    BY <2>2, <2>5, <2>6, <2>7, <2>8 DEF Presented!Go, Presented!rowVars
  <2>10. On(c) \in SUBSET Profiles
    BY <1>0
  <2>. QED  BY <2>9, <2>10 DEF Presented!Next
<1>3. ASSUME NEW c \in Configs, NEW p \in Profiles, Look(c, p) PROVE Goal
  <2>1. /\ p \in lines[c] /\ lines' = [lines EXCEPT ![c] = @ \ {p}]
        /\ cur' = [cur EXCEPT ![c] = p] \/ cur' = cur
        /\ UNCHANGED <<open, profile, stranded, on, steady>>
    BY <1>3 DEF Look
  <2>2. ConfigOf[p] = c
    BY <2>1 DEF Of
  <2>3. Due' \subseteq Due
    BY <2>1, <2>2 DEF Due
  <2>4. Presented!Lapse
    BY <1>0, <2>3, LapseIs
  <2>5. Sure' = Sure
    BY <2>1, SureStays
  <2>6. Presented!Miss
    BY <2>1, <2>4, <2>5 DEF Presented!Miss, Presented!rowVars
  <2>. QED  BY <2>6 DEF Presented!Next
<1>4. ASSUME NEW c \in Configs, Find(c) PROVE Goal
  BY <1>4, DueStays, SureStays
  DEF Find, Presented!vars, Presented!clientVars, Presented!rowVars
<1>5. ASSUME NEW c \in Configs, Write(c) PROVE Goal
  <2>1. /\ watch[c] = "write" /\ cur' = [cur EXCEPT ![c] = None]
        /\ UNCHANGED <<lines, profile, stranded, on, steady>>
    BY <1>5 DEF Write
  <2>2. cur[c] \in Profiles /\ ConfigOf[cur[c]] = c
    BY <2>1 DEF AtHand, Of
  <2>3. Due' \subseteq Due /\ cur[c] \in Due
    BY <2>1, <2>2, NoneAssumption DEF Due
  <2>4. Presented!Lapse
    BY <1>0, <2>3, LapseIs
  <2>5. Sure' = Sure
    BY <2>1, SureStays
  <2>6. CASE conn[c] /\ ~has[c] /\ profile[cur[c]] = "kept"
    <3>1. open[cur[c]] = 0
      BY <2>1, <2>6 DEF AtHand
    <3>2. open' = [open EXCEPT ![cur[c]] = 1]
      BY <1>5, <2>2, <2>6, <3>1 DEF Write
    <3>3. Presented!Open(cur[c])
      BY <2>1, <2>3, <2>4, <2>5, <2>6, <3>1, <3>2 DEF Presented!Open
    <3>. QED  BY <2>2, <3>3 DEF Presented!Next
  <2>7. CASE ~(conn[c] /\ ~has[c] /\ profile[cur[c]] = "kept")
    <3>1. UNCHANGED open
      BY <1>5, <2>7 DEF Write
    <3>2. Presented!Miss
      BY <2>1, <2>4, <2>5, <3>1 DEF Presented!Miss, Presented!rowVars
    <3>. QED  BY <3>2 DEF Presented!Next
  <2>. QED  BY <2>6, <2>7
<1>6. ASSUME NEW c \in Configs, Sweep(c) PROVE Goal
  <2>. DEFINE S == IF conn[c] THEN {p \in Of(c) \ seen[c] : open[p] > 0} ELSE {}
  <2>1. /\ watch[c] = "sweep" /\ steady' = [steady EXCEPT ![c] = {}]
        /\ UNCHANGED <<lines, cur, profile, stranded, on>>
    BY <1>6 DEF Sweep
  <2>2. Due' = Due
    BY <2>1, DueStays
  <2>3. Sure' = Sure \ Of(c)
    BY <2>1 DEF Sure, Of
  <2>4. open' = [p \in Profiles |-> IF p \in S THEN 0 ELSE open[p]]
    BY <1>6 DEF Sweep, Of
  <2>5. S \subseteq Of(c) \ Sure
    <3>. SUFFICES ASSUME NEW p \in S, p \in Sure PROVE FALSE
      BY DEF Of
    <3>1. conn[c] /\ p \in Of(c) /\ p \notin seen[c] /\ open[p] > 0
      BY Zenon
    <3>2. p \in Profiles /\ p \in steady[c]
      BY <3>1 DEF Of, Sure
    <3>3. profile[p] = "kept" /\ lines[c] = {}
      BY <2>1, <3>1, <3>2 DEF Backed, Rested
    <3>. QED  BY <3>1, <3>2, <3>3 DEF Remembered
  <2>. HIDE DEF S
  <2>6. Presented!Of(c) = Of(c)
    BY DEF Presented!Of, Of
  <2>7. Presented!Close(c, S)
    BY <2>1, <2>2, <2>3, <2>4, <2>5, <2>6 DEF Presented!Close
  <2>8. S \in SUBSET Profiles
    BY <1>0, <2>5
  <2>. QED  BY <2>7, <2>8 DEF Presented!Next
<1>7. ASSUME NEW c \in Configs, Leave(c) PROVE Goal
  BY <1>7, DueStays, SureStays
  DEF Leave, Presented!vars, Presented!clientVars, Presented!rowVars
<1>8. ASSUME NEW c \in Configs, Start(c) PROVE Goal
  BY <1>8, DueStays, SureStays
  DEF Start, Presented!vars, Presented!clientVars, Presented!rowVars
<1>9. ASSUME NEW c \in Configs, Stop(c) PROVE Goal
  <2>1. /\ on' = on \ Of(c) /\ steady' = [steady EXCEPT ![c] = {}]
        /\ UNCHANGED <<open, profile, stranded, lines, cur>>
    BY <1>9 DEF Stop
  <2>2. Due' \subseteq Due
    BY <2>1 DEF Due
  <2>3. Presented!Lapse
    BY <1>0, <2>2, LapseIs
  <2>4. Sure' = Sure \ Of(c)
    BY <2>1 DEF Sure, Of
  <2>5. Sure \ Of(c) = Sure \ On(c)
    BY SureIsOn DEF On
  <2>6. on' = on \ On(c) /\ On(c) \subseteq on
    BY <2>1 DEF On
  <2>7. Presented!Go(On(c))
    BY <2>1, <2>3, <2>4, <2>5, <2>6 DEF Presented!Go, Presented!rowVars
  <2>8. On(c) \in SUBSET Profiles
    BY <1>0
  <2>. QED  BY <2>7, <2>8 DEF Presented!Next
<1>10. ASSUME NEW c \in Configs, ConnLost(c) PROVE Goal
  BY <1>10, DueStays, SureStays
  DEF ConnLost, Presented!vars, Presented!clientVars, Presented!rowVars
<1>11. ASSUME NEW c \in Configs, WebDelete(c) PROVE Goal
  <2>1. Due' = Due /\ Sure' = Sure
    BY <1>11, DueStays, SureStays DEF WebDelete
  <2>2. Presented!Of(c) = Of(c)
    BY DEF Presented!Of, Of
  <2>3. Presented!Delete(c)
    BY <1>11, <2>1, <2>2 DEF WebDelete, Presented!Delete, Presented!clientVars
  <2>. QED  BY <2>3 DEF Presented!Next
<1>12. ASSUME NEW p \in Profiles, Issue(p) PROVE Goal
  <2>1. Due' = Due /\ Sure' = Sure
    BY <1>12, DueStays, SureStays DEF Issue
  <2>2. Presented!Issue(p)
    BY <1>12, <2>1 DEF Issue, Presented!Issue, Presented!clientVars
  <2>. QED  BY <2>2 DEF Presented!Next
<1>13. ASSUME NEW p \in Profiles, Connect(p) PROVE Goal
  <2>1. Sure' = Sure
    BY <1>13, SureStays DEF Connect
  <2>2. Due' = Due \union {p}
    BY <1>13 DEF Connect, Due
  <2>3. Presented!Come(p)
    BY <1>13, <2>1, <2>2 DEF Connect, Presented!Come, Presented!rowVars
  <2>. QED  BY <2>3 DEF Presented!Next
<1>14. ASSUME NEW p \in Profiles, Disconnect(p) PROVE Goal
  <2>1. /\ p \in on /\ on' = on \ {p}
        /\ steady' = [steady EXCEPT ![ConfigOf[p]] = @ \ {p}]
        /\ UNCHANGED <<open, profile, stranded, lines, cur>>
    BY <1>14 DEF Disconnect
  <2>2. Due' \subseteq Due
    BY <2>1 DEF Due
  <2>3. Presented!Lapse
    BY <1>0, <2>2, LapseIs
  <2>4. Sure' = Sure \ {p}
    BY <2>1 DEF Sure
  <2>5. Presented!Go({p})
    BY <2>1, <2>3, <2>4 DEF Presented!Go, Presented!rowVars
  <2>. QED  BY <2>5 DEF Presented!Next
<1>15. CASE UNCHANGED vars
  BY <1>15, DueStays, SureStays
  DEF vars, Presented!vars, Presented!clientVars, Presented!rowVars
<1>. QED
  BY ONLY [Next]_vars, <1>1, <1>2, <1>3, <1>4, <1>5, <1>6, <1>7, <1>8, <1>9, <1>10, <1>11, <1>12,
     <1>13, <1>14, <1>15
  DEF Next, Work

\* The monitors implement Presence, for any configurations, profiles and buffer:
\* sessions are opened only for clients that came, one at a time and with a profile,
\* and closed one configuration at a time, never a sure client's.
THEOREM ImplementsPresence == Spec => PresenceKept
<1>1. Faithful /\ Faithful' /\ [Next]_vars => [Presented!Next]_(Presented!vars)
  BY PresentedStep
<1>. QED  BY PresentedInit, FaithfulAlways, <1>1, PTL DEF Spec, PresenceKept, Presented!Spec
=============================================================================
