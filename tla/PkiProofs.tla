------------------------------ MODULE PkiProofs ------------------------------
(***************************************************************************)
(* Proofs about Pki, for any number of handlers, authorities, configs,      *)
(* profiles and certificates, and with a database that may refuse any       *)
(* statement.                                                               *)
(***************************************************************************)
EXTENDS Pki, TLAPS

\* What a handler holds at each place of its request.
Holding ==
    \A h \in Handlers :
        /\ pc[h] \in SignPC => on[h] \in Configs /\ pick[h] \in CAs
        /\ pc[h] \in DeletePC => pick[h] \in CAs
        /\ pc[h] \in GenPC => on[h] \in Profiles
        /\ pc[h] \in {"genuser", "genwrite"} => sub[h] \in Certs
        /\ At(h, "genwrite") => on[h] \in users
        /\ pc[h] \in RevokePC => on[h] \in Profiles /\ sub[h] \in Certs

\* A handler that has listed a certificate finds it listed, or its config gone.
Listing ==
    \A h \in Handlers :
        At(h, "revflag") => <<on[h], sub[h]>> \in listed \/ ConfigOf[on[h]] \notin row

\* The inductive invariant behind the types and the revocation list.
Kept == TypeOK /\ Holding /\ Listing /\ FlaggedIsListed

\* Nothing is in progress and nothing is revoked at the start.
LEMMA KeptInit == Init => Kept
  BY NoneAssumption, ConfigOfAssumption
  DEF Init, Kept, TypeOK, Holding, Listing, FlaggedIsListed, Has, At, SignPC, DeletePC,
      GenPC, RevokePC

\* Every statement of every handler, and the deletion of a config, keeps the
\* types of the tables and of what handlers hold.
LEMMA TypeStep == TypeOK /\ Holding /\ [Next]_vars => TypeOK' /\ Holding'
<1>. SUFFICES ASSUME TypeOK, Holding, [Next]_vars PROVE TypeOK' /\ Holding'
  OBVIOUS
<1>. USE NoneAssumption, ConfigOfAssumption
     DEF TypeOK, Holding, Has, SignPC, DeletePC, GenPC, RevokePC, localVars, caVars, configVars, clientVars, At, Goto, Answer
<1>1. ASSUME NEW a \in CAs, GenerateCa(a) PROVE TypeOK' /\ Holding'
  BY <1>1 DEF GenerateCa
<1>2. ASSUME NEW h \in Handlers, NEW c \in Configs, NEW a \in CAs, SignRead(h, c, a)
      PROVE  TypeOK' /\ Holding'
  BY <1>2 DEF SignRead
<1>3. ASSUME NEW h \in Handlers, NEW a \in CAs, DeleteRead(h, a)
      PROVE  TypeOK' /\ Holding'
  BY <1>3 DEF DeleteRead
<1>4. ASSUME NEW h \in Handlers, NEW p \in Profiles, GenRead(h, p)
      PROVE  TypeOK' /\ Holding'
  BY <1>4 DEF GenRead
<1>5. ASSUME NEW h \in Handlers, NEW p \in Profiles, RevokeRead(h, p)
      PROVE  TypeOK' /\ Holding'
  BY <1>5 DEF RevokeRead
<1>6. ASSUME NEW h \in Handlers, SignWrite(h) PROVE TypeOK' /\ Holding'
  BY <1>6 DEF SignWrite
<1>7. ASSUME NEW h \in Handlers, DeleteCheck(h) PROVE TypeOK' /\ Holding'
  <2>. USE <1>7 DEF DeleteCheck
  <2>1. CASE Answer(h) /\ UNCHANGED blind
    <3>1. TypeOK'
      BY <2>1
    <3>2. Holding'
      BY <2>1
    <3>. QED  BY <3>1, <3>2
  <2>2. CASE Goto(h, "delrow") /\ UNCHANGED <<on, pick, sub>>
    <3>1. TypeOK'
      BY <2>2
    <3>2. Holding'
      BY <2>2
    <3>. QED  BY <3>1, <3>2
  <2>. QED  BY <2>1, <2>2
<1>8. ASSUME NEW h \in Handlers, DeleteRow(h) PROVE TypeOK' /\ Holding'
  BY <1>8 DEF DeleteRow
<1>9. ASSUME NEW h \in Handlers, NEW s \in Certs, GenKey(h, s)
      PROVE  TypeOK' /\ Holding'
  BY <1>9 DEF GenKey
<1>10. ASSUME NEW h \in Handlers, GenUser(h) PROVE TypeOK' /\ Holding'
  BY <1>10 DEF GenUser
<1>11. ASSUME NEW h \in Handlers, GenWrite(h) PROVE TypeOK' /\ Holding'
  BY <1>11 DEF GenWrite
<1>12. ASSUME NEW h \in Handlers, RevokeList(h) PROVE TypeOK' /\ Holding'
  BY <1>12 DEF RevokeList
<1>13. ASSUME NEW h \in Handlers, RevokeFlag(h) PROVE TypeOK' /\ Holding'
  BY <1>13 DEF RevokeFlag
<1>14. ASSUME NEW h \in Handlers, Fail(h) PROVE TypeOK' /\ Holding'
  BY <1>14 DEF Fail
<1>15. ASSUME NEW c \in Configs, WebDelete(c) PROVE TypeOK' /\ Holding'
  BY <1>15 DEF WebDelete
<1>16. CASE UNCHANGED vars
  BY <1>16 DEF vars
<1>. QED
  BY <1>1, <1>2, <1>3, <1>4, <1>5, <1>6, <1>7, <1>8, <1>9, <1>10, <1>11,
     <1>12, <1>13, <1>14, <1>15, <1>16
  DEF Next, Request, Step

\* Every statement keeps the revocation list in step with the flags: a profile's
\* list entries go only with its config, and a config never comes back.
LEMMA ListingStep == Kept /\ [Next]_vars => Listing' /\ FlaggedIsListed'
<1>. SUFFICES ASSUME Kept, [Next]_vars PROVE Listing' /\ FlaggedIsListed'
  OBVIOUS
<1>. USE NoneAssumption, ConfigOfAssumption
     DEF Kept, TypeOK, Holding, Listing, FlaggedIsListed, Has, SignPC, DeletePC, GenPC,
         RevokePC, localVars, caVars, configVars, clientVars, At, Goto, Answer
<1>1. ASSUME NEW a \in CAs, GenerateCa(a) PROVE Listing' /\ FlaggedIsListed'
  BY <1>1 DEF GenerateCa
<1>2. ASSUME NEW h \in Handlers, NEW c \in Configs, NEW a \in CAs, SignRead(h, c, a)
      PROVE  Listing' /\ FlaggedIsListed'
  BY <1>2 DEF SignRead
<1>3. ASSUME NEW h \in Handlers, NEW a \in CAs, DeleteRead(h, a)
      PROVE  Listing' /\ FlaggedIsListed'
  BY <1>3 DEF DeleteRead
<1>4. ASSUME NEW h \in Handlers, NEW p \in Profiles, GenRead(h, p)
      PROVE  Listing' /\ FlaggedIsListed'
  BY <1>4 DEF GenRead
<1>5. ASSUME NEW h \in Handlers, NEW p \in Profiles, RevokeRead(h, p)
      PROVE  Listing' /\ FlaggedIsListed'
  BY <1>5 DEF RevokeRead
<1>6. ASSUME NEW h \in Handlers, SignWrite(h) PROVE Listing' /\ FlaggedIsListed'
  BY <1>6 DEF SignWrite
<1>7. ASSUME NEW h \in Handlers, DeleteCheck(h) PROVE Listing' /\ FlaggedIsListed'
  <2>. USE <1>7 DEF DeleteCheck
  <2>1. CASE Answer(h) /\ UNCHANGED blind
    <3>1. Listing'
      BY <2>1
    <3>2. FlaggedIsListed'
      BY <2>1
    <3>. QED  BY <3>1, <3>2
  <2>2. CASE Goto(h, "delrow") /\ UNCHANGED <<on, pick, sub>>
    <3>1. Listing'
      BY <2>2
    <3>2. FlaggedIsListed'
      BY <2>2
    <3>. QED  BY <3>1, <3>2
  <2>. QED  BY <2>1, <2>2
<1>8. ASSUME NEW h \in Handlers, DeleteRow(h) PROVE Listing' /\ FlaggedIsListed'
  BY <1>8 DEF DeleteRow
<1>9. ASSUME NEW h \in Handlers, NEW s \in Certs, GenKey(h, s)
      PROVE  Listing' /\ FlaggedIsListed'
  <2>1. \A g \in Handlers : At(g, "revflag")' =>
                               At(g, "revflag") /\ on'[g] = on[g] /\ sub'[g] = sub[g]
    BY <1>9 DEF GenKey
  <2>2. UNCHANGED <<row, listed, revoked>>
    BY <1>9 DEF GenKey
  <2>. QED  BY <2>1, <2>2
<1>10. ASSUME NEW h \in Handlers, GenUser(h) PROVE Listing' /\ FlaggedIsListed'
  BY <1>10 DEF GenUser
<1>11. ASSUME NEW h \in Handlers, GenWrite(h) PROVE Listing' /\ FlaggedIsListed'
  BY <1>11 DEF GenWrite
<1>12. ASSUME NEW h \in Handlers, RevokeList(h) PROVE Listing' /\ FlaggedIsListed'
  <2>1. \A g \in Handlers \ {h} :
          pc'[g] = pc[g] /\ on'[g] = on[g] /\ sub'[g] = sub[g]
    BY <1>12 DEF RevokeList
  <2>2. At(h, "revflag")' => <<on'[h], sub'[h]>> \in listed'
    BY <1>12 DEF RevokeList
  <2>3. row' = row /\ revoked' = revoked /\ listed \subseteq listed'
    BY <1>12 DEF RevokeList
  <2>. QED  BY <2>1, <2>2, <2>3
<1>13. ASSUME NEW h \in Handlers, RevokeFlag(h) PROVE Listing' /\ FlaggedIsListed'
  BY <1>13 DEF RevokeFlag
<1>14. ASSUME NEW h \in Handlers, Fail(h) PROVE Listing' /\ FlaggedIsListed'
  BY <1>14 DEF Fail
<1>15. ASSUME NEW c \in Configs, WebDelete(c) PROVE Listing' /\ FlaggedIsListed'
  BY <1>15 DEF WebDelete
<1>16. CASE UNCHANGED vars
  BY <1>16 DEF vars
<1>. QED
  BY <1>1, <1>2, <1>3, <1>4, <1>5, <1>6, <1>7, <1>8, <1>9, <1>10, <1>11,
     <1>12, <1>13, <1>14, <1>15, <1>16
  DEF Next, Request, Step

\* The inductive invariant holds in every reachable state.
LEMMA KeptAlways == Spec => []Kept
<1>1. Kept /\ [Next]_vars => Kept'
  BY TypeStep, ListingStep DEF Kept
<1>. QED  BY KeptInit, <1>1, PTL DEF Spec

\* The tables keep their types and references, whatever handlers overlap.
THEOREM PkiTypes == Spec => []TypeOK
<1>1. Kept => TypeOK
  BY DEF Kept
<1>. QED  BY KeptAlways, <1>1, PTL

\* A profile flagged revoked has a certificate in vpn_revoked_certs: the INSERT
\* of revoke_client_cert comes first and is checked.
THEOREM FlaggedListed == Spec => []FlaggedIsListed
<1>1. Kept => FlaggedIsListed
  BY DEF Kept
<1>. QED  BY KeptAlways, <1>1, PTL

-----------------------------------------------------------------------------
\* At most one request that signs with a CA or deletes one is in progress; a
\* CA being signed with has a row, and one about to lose it is not in use.
InUse ==
    /\ \A g, h \in Handlers :
         pc[g] \in SignPC \union DeletePC /\ pc[h] \in SignPC \union DeletePC => g = h
    /\ \A h \in Handlers :
         /\ pc[h] \in SignPC => pick[h] \in store
         /\ At(h, "delrow") /\ ~blind => \A c \in row : caOf[c] # pick[h]

\* Every step keeps CAs in use, if requests that sign and that delete exclude
\* each other.
LEMMA InUseStep ==
    ASSUME CaAlone PROVE TypeOK /\ Holding /\ InUse /\ CaInUseKept /\ [Next]_vars
                           => InUse' /\ CaInUseKept'
<1>. SUFFICES ASSUME TypeOK, Holding, InUse, CaInUseKept, [Next]_vars
              PROVE InUse' /\ CaInUseKept'
  OBVIOUS
<1>. USE CaAlone, NoneAssumption, ConfigOfAssumption
     DEF TypeOK, Holding, InUse, CaInUseKept, Alone, SignPC, DeletePC, GenPC, RevokePC,
         localVars, caVars, configVars, clientVars, At, Goto, Answer
<1>1. ASSUME NEW a \in CAs, GenerateCa(a) PROVE InUse' /\ CaInUseKept'
  BY <1>1 DEF GenerateCa
<1>2. ASSUME NEW h \in Handlers, NEW c \in Configs, NEW a \in CAs, SignRead(h, c, a)
      PROVE  InUse' /\ CaInUseKept'
  BY <1>2 DEF SignRead
<1>3. ASSUME NEW h \in Handlers, NEW a \in CAs, DeleteRead(h, a)
      PROVE  InUse' /\ CaInUseKept'
  BY <1>3 DEF DeleteRead
<1>4. ASSUME NEW h \in Handlers, NEW p \in Profiles, GenRead(h, p)
      PROVE  InUse' /\ CaInUseKept'
  BY <1>4 DEF GenRead
<1>5. ASSUME NEW h \in Handlers, NEW p \in Profiles, RevokeRead(h, p)
      PROVE  InUse' /\ CaInUseKept'
  BY <1>5 DEF RevokeRead
<1>6. ASSUME NEW h \in Handlers, SignWrite(h) PROVE InUse' /\ CaInUseKept'
  BY <1>6 DEF SignWrite
<1>7. ASSUME NEW h \in Handlers, DeleteCheck(h) PROVE InUse' /\ CaInUseKept'
  BY <1>7 DEF DeleteCheck
<1>8. ASSUME NEW h \in Handlers, DeleteRow(h) PROVE InUse' /\ CaInUseKept'
  BY <1>8 DEF DeleteRow
<1>9. ASSUME NEW h \in Handlers, NEW s \in Certs, GenKey(h, s)
      PROVE  InUse' /\ CaInUseKept'
  BY <1>9 DEF GenKey
<1>10. ASSUME NEW h \in Handlers, GenUser(h) PROVE InUse' /\ CaInUseKept'
  BY <1>10 DEF GenUser
<1>11. ASSUME NEW h \in Handlers, GenWrite(h) PROVE InUse' /\ CaInUseKept'
  BY <1>11 DEF GenWrite
<1>12. ASSUME NEW h \in Handlers, RevokeList(h) PROVE InUse' /\ CaInUseKept'
  BY <1>12 DEF RevokeList
<1>13. ASSUME NEW h \in Handlers, RevokeFlag(h) PROVE InUse' /\ CaInUseKept'
  BY <1>13 DEF RevokeFlag
<1>14. ASSUME NEW h \in Handlers, Fail(h) PROVE InUse' /\ CaInUseKept'
  BY <1>14 DEF Fail
<1>15. ASSUME NEW c \in Configs, WebDelete(c) PROVE InUse' /\ CaInUseKept'
  BY <1>15 DEF WebDelete
<1>16. CASE UNCHANGED vars
  BY <1>16 DEF vars
<1>. QED
  BY <1>1, <1>2, <1>3, <1>4, <1>5, <1>6, <1>7, <1>8, <1>9, <1>10, <1>11,
     <1>12, <1>13, <1>14, <1>15, <1>16
  DEF Next, Request, Step

\* A CA that a config uses is not deleted, if requests that sign and that delete
\* exclude each other and the database answers the reference check: a config
\* can go on issuing client certificates.
THEOREM CaKept == ASSUME CaAlone PROVE Spec => []CaInUseKept
<1>1. Init => InUse /\ CaInUseKept
  BY DEF Init, InUse, CaInUseKept, SignPC, DeletePC, At
<1>2. Kept /\ InUse /\ CaInUseKept /\ [Next]_vars => (InUse /\ CaInUseKept)'
  BY CaAlone, InUseStep DEF Kept
<1>. QED  BY <1>1, <1>2, KeptAlways, PTL DEF Spec
=============================================================================
