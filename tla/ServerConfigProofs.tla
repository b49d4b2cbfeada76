-------------------------- MODULE ServerConfigProofs --------------------------
(***************************************************************************)
(* Proofs for ServerConfig: its types for any interleaving, and for         *)
(* serialised applies that a server finds its own certificates and its own  *)
(* rows, whatever is killed or refused.                                     *)
(***************************************************************************)
EXTENDS ServerConfig, TLAPS

\* Every row has a version, and a busy handler holds what it selected.
Held ==
    /\ \A c \in rows : main[c] \in Versions
    /\ \A r \in Requests : pc[r] # "idle" => on[r] \in Configs /\ sent[r] \in Versions
    /\ \A h \in Handlers : at[h] # "idle" => job[h] \in Configs /\ got[h] \in Selected

\* A page at work has its config to itself, has written vpn_config, and an add has
\* not written the row beside it; an edit of a config without one was preceded by a cut.
Pages ==
    /\ \A r \in Requests : pc[r] # "idle" =>
          on[r] \in rows /\ main[on[r]] = sent[r]
    /\ \A r \in Requests : pc[r] \in {"net", "undo"} => on[r] \notin nets
    /\ \A r \in Requests : pc[r] = "edit" => on[r] \in nets \/ on[r] \in cut
    /\ \A r, q \in Requests : pc[r] # "idle" /\ pc[q] # "idle" /\ on[r] = on[q] => r = q

\* A handler at work is alone, no page is at work on its config, and the row is as it
\* was selected but for the certificates.
Working ==
    /\ \A g, h \in Handlers : at[g] # "idle" /\ at[h] # "idle" => g = h
    /\ \A h \in Handlers : at[h] # "idle" =>
          /\ job[h] \in rows /\ got[h].main = main[job[h]]
          /\ \A r \in Requests : pc[r] # "idle" => on[r] # job[h]

Wrote(h, x) == got[h].certs[x] # None => file[x] = got[h].certs[x]

\* What a handler has written is in the files, as far as it has come.
Written ==
    /\ \A h \in Handlers :
          /\ at[h] \in {"crt", "key", "dh", "dhgen", "conf", "exec"} => Wrote(h, "ca")
          /\ at[h] \in {"key", "dh", "dhgen", "conf", "exec"} => Wrote(h, "crt")
          /\ at[h] \in {"dh", "dhgen", "conf", "exec"} => Wrote(h, "key")
    /\ FileSaysRow

\* An empty dh.pem is being generated, or was spoiled.
Dh ==
    /\ \A h \in Handlers : /\ at[h] = "dhgen" => dh = "empty"
                           /\ at[h] \in {"conf", "exec"} => dh = "whole" \/ (dh = "empty" /\ spoiled)
    /\ dh = "empty" => spoiled \/ \E h \in Handlers : at[h] = "dhgen"

Types == TypeOK /\ Held
IInv == Types /\ Pages /\ RowsTogether /\ Working /\ Written /\ Dh

\* The inductive invariant holds at the start.
LEMMA InitIInv == Init => IInv
<1> SUFFICES ASSUME Init PROVE IInv OBVIOUS
<1>1. Types BY NoneAssumption DEF Init, Types, TypeOK, Held, Parts, Certificates, Blank
<1>2. Pages /\ RowsTogether BY DEF Init, Pages, RowsTogether
<1>3. Working /\ Written /\ Dh
  BY DEF Init, Working, Written, Dh, FileSaysRow
<1>. QED BY <1>1, <1>2, <1>3 DEF IInv

\* Types are kept by every step.
LEMMA TypesStep ==
  ASSUME Types, [Next]_vars
  PROVE  TypeOK'
<1> USE NoneAssumption, PastesAssumption, FlagAssumption DEF Parts
<1>1. ASSUME NEW r \in Requests, NEW c \in Configs, NEW v \in Versions, AddRow(r,c,v)
      PROVE  TypeOK'
  BY <1>1 DEF Types, TypeOK, Held, Certificates, Selected, Generated, Blank, AddRow, Takes, coreVars, fileVars
<1>2. ASSUME NEW r \in Requests, NEW c \in Configs, NEW v \in Versions, EditRow(r,c,v)
      PROVE  TypeOK'
  BY <1>2 DEF Types, TypeOK, Held, Certificates, Selected, Generated, Blank, EditRow, Takes, coreVars, fileVars
<1>3. ASSUME NEW r \in Requests, AddNet(r)
      PROVE  TypeOK'
  BY <1>3 DEF Types, TypeOK, Held, Certificates, Selected, Generated, Blank, AddNet, Answers, Takes, coreVars, fileVars
<1>4. ASSUME NEW r \in Requests, AddRefused(r)
      PROVE  TypeOK'
  BY <1>4 DEF Types, TypeOK, Held, Certificates, Selected, Generated, Blank, AddRefused, coreVars, tableVars, fileVars
<1>5. ASSUME NEW r \in Requests, AddUndo(r)
      PROVE  TypeOK'
  BY <1>5 DEF Types, TypeOK, Held, Certificates, Selected, Generated, Blank, AddUndo, Answers, Takes, Drop, coreVars, fileVars
<1>6. ASSUME NEW r \in Requests, EditNet(r)
      PROVE  TypeOK'
  BY <1>6 DEF Types, TypeOK, Held, Certificates, Selected, Generated, Blank, EditNet, Answers, Takes, coreVars, fileVars
<1>7. ASSUME NEW r \in Requests, EditRefused(r)
      PROVE  TypeOK'
  BY <1>7 DEF Types, TypeOK, Held, Certificates, Selected, Generated, Blank, EditRefused, Answers, Takes, coreVars, fileVars
<1>8. ASSUME NEW r \in Requests, KillWeb(r)
      PROVE  TypeOK'
  BY <1>8 DEF Types, TypeOK, Held, Certificates, Selected, Generated, Blank, KillWeb, Answers, Takes, coreVars, fileVars
<1>9. ASSUME NEW h \in Handlers, NEW c \in Configs, Select(h,c)
      PROVE  TypeOK'
  BY <1>9 DEF Types, TypeOK, Held, Certificates, Selected, Generated, Blank, Select, Goto, webVars, tableVars, fileVars
<1>10. ASSUME NEW h \in Handlers, WriteCert(h)
      PROVE  TypeOK'
  BY <1>10 DEF Types, TypeOK, Held, Certificates, Selected, Generated, Blank, WriteCert, Goto, Then, webVars, tableVars
<1>11. ASSUME NEW h \in Handlers, LookDh(h)
      PROVE  TypeOK'
  BY <1>11 DEF Types, TypeOK, Held, Certificates, Selected, Generated, Blank, LookDh, Goto, webVars, tableVars
<1>12. ASSUME NEW h \in Handlers, MakeDh(h)
      PROVE  TypeOK'
  BY <1>12 DEF Types, TypeOK, Held, Certificates, Selected, Generated, Blank, MakeDh, Goto, webVars, tableVars
<1>13. ASSUME NEW h \in Handlers, MakeDhFails(h)
      PROVE  TypeOK'
  BY <1>13 DEF Types, TypeOK, Held, Certificates, Selected, Generated, Blank, MakeDhFails, Goto, Finish, webVars, tableVars
<1>14. ASSUME NEW h \in Handlers, WriteConf(h)
      PROVE  TypeOK'
  BY <1>14 DEF Types, TypeOK, Held, Certificates, Selected, Generated, Blank, WriteConf, Goto, webVars, tableVars
<1>15. ASSUME NEW h \in Handlers, Exec(h)
      PROVE  TypeOK'
  BY <1>15 DEF Types, TypeOK, Held, Certificates, Selected, Generated, Blank, Exec, Goto, Finish, webVars, tableVars, fileVars
<1>16. ASSUME NEW c \in Configs, Delete(c)
      PROVE  TypeOK'
  BY <1>16 DEF Types, TypeOK, Held, Certificates, Selected, Generated, Blank, Delete, Drop, webVars, coreVars, fileVars
<1>17. ASSUME NEW c \in Configs, NEW s \in Sets, Sign(c,s)
      PROVE  TypeOK'
  BY <1>17 DEF Types, TypeOK, Held, Certificates, Selected, Generated, Blank, Sign, webVars, coreVars, fileVars
<1>18. CASE KillCore
  BY <1>18 DEF Types, TypeOK, Held, Certificates, Selected, Generated, Blank, KillCore, webVars, tableVars
<1>19. CASE UNCHANGED vars
  BY <1>19 DEF Types, TypeOK, Held, Certificates, Selected, Generated, Blank, vars, webVars, coreVars, tableVars, fileVars
<1>20. ASSUME NEW r \in Requests, Web(r) PROVE TypeOK'
  BY ONLY <1>20, <1>1, <1>2, <1>3, <1>4, <1>5, <1>6, <1>7, <1>8 DEF Web
<1>21. ASSUME NEW h \in Handlers, Apply(h) PROVE TypeOK'
  BY ONLY <1>21, <1>9, <1>10, <1>11, <1>12, <1>13, <1>14, <1>15 DEF Apply
<1>. QED BY <1>20, <1>21, <1>16, <1>17, <1>18, <1>19 DEF Next

\* So is what requests and handlers hold.
LEMMA HeldStep ==
  ASSUME Types, [Next]_vars
  PROVE  Held'
<1> USE NoneAssumption, PastesAssumption, FlagAssumption DEF Parts
<1>1. ASSUME NEW r \in Requests, NEW c \in Configs, NEW v \in Versions, AddRow(r,c,v)
      PROVE  Held'
  BY <1>1 DEF Types, TypeOK, Held, Selected, AddRow, Takes, coreVars, fileVars
<1>2. ASSUME NEW r \in Requests, NEW c \in Configs, NEW v \in Versions, EditRow(r,c,v)
      PROVE  Held'
  BY <1>2 DEF Types, TypeOK, Held, Selected, EditRow, Takes, coreVars, fileVars
<1>3. ASSUME NEW r \in Requests, AddNet(r)
      PROVE  Held'
  BY <1>3 DEF Types, TypeOK, Held, Selected, AddNet, Answers, Takes, coreVars, fileVars
<1>4. ASSUME NEW r \in Requests, AddRefused(r)
      PROVE  Held'
  BY <1>4 DEF Types, TypeOK, Held, Selected, AddRefused, coreVars, tableVars, fileVars
<1>5. ASSUME NEW r \in Requests, AddUndo(r)
      PROVE  Held'
  BY <1>5 DEF Types, TypeOK, Held, Selected, AddUndo, Answers, Takes, Drop, coreVars, fileVars
<1>6. ASSUME NEW r \in Requests, EditNet(r)
      PROVE  Held'
  BY <1>6 DEF Types, TypeOK, Held, Selected, EditNet, Answers, Takes, coreVars, fileVars
<1>7. ASSUME NEW r \in Requests, EditRefused(r)
      PROVE  Held'
  BY <1>7 DEF Types, TypeOK, Held, Selected, EditRefused, Answers, Takes, coreVars, fileVars
<1>8. ASSUME NEW r \in Requests, KillWeb(r)
      PROVE  Held'
  BY <1>8 DEF Types, TypeOK, Held, Selected, KillWeb, Answers, Takes, coreVars, fileVars
<1>9. ASSUME NEW h \in Handlers, NEW c \in Configs, Select(h,c)
      PROVE  Held'
  BY <1>9 DEF Types, TypeOK, Held, Selected, Select, Goto, webVars, tableVars, fileVars
<1>10. ASSUME NEW h \in Handlers, WriteCert(h)
      PROVE  Held'
  BY <1>10 DEF Types, TypeOK, Held, Selected, WriteCert, Goto, Then, webVars, tableVars
<1>11. ASSUME NEW h \in Handlers, LookDh(h)
      PROVE  Held'
  BY <1>11 DEF Types, TypeOK, Held, Selected, LookDh, Goto, webVars, tableVars
<1>12. ASSUME NEW h \in Handlers, MakeDh(h)
      PROVE  Held'
  BY <1>12 DEF Types, TypeOK, Held, Selected, MakeDh, Goto, webVars, tableVars
<1>13. ASSUME NEW h \in Handlers, MakeDhFails(h)
      PROVE  Held'
  BY <1>13 DEF Types, TypeOK, Held, Selected, MakeDhFails, Goto, Finish, webVars, tableVars
<1>14. ASSUME NEW h \in Handlers, WriteConf(h)
      PROVE  Held'
  BY <1>14 DEF Types, TypeOK, Held, Selected, WriteConf, Goto, webVars, tableVars
<1>15. ASSUME NEW h \in Handlers, Exec(h)
      PROVE  Held'
  BY <1>15 DEF Types, TypeOK, Held, Selected, Exec, Goto, Finish, webVars, tableVars, fileVars
<1>16. ASSUME NEW c \in Configs, Delete(c)
      PROVE  Held'
  BY <1>16 DEF Types, TypeOK, Held, Selected, Delete, Drop, webVars, coreVars, fileVars
<1>17. ASSUME NEW c \in Configs, NEW s \in Sets, Sign(c,s)
      PROVE  Held'
  BY <1>17 DEF Types, TypeOK, Held, Selected, Sign, webVars, coreVars, fileVars
<1>18. CASE KillCore
  BY <1>18 DEF Types, TypeOK, Held, Selected, KillCore, webVars, tableVars
<1>19. CASE UNCHANGED vars
  BY <1>19 DEF Types, TypeOK, Held, Selected, vars, webVars, coreVars, tableVars, fileVars
<1>20. ASSUME NEW r \in Requests, Web(r) PROVE Held'
  BY ONLY <1>20, <1>1, <1>2, <1>3, <1>4, <1>5, <1>6, <1>7, <1>8 DEF Web
<1>21. ASSUME NEW h \in Handlers, Apply(h) PROVE Held'
  BY ONLY <1>21, <1>9, <1>10, <1>11, <1>12, <1>13, <1>14, <1>15 DEF Apply
<1>. QED BY <1>20, <1>21, <1>16, <1>17, <1>18, <1>19 DEF Next

\* Pages keep to themselves.
LEMMA PagesStep ==
  ASSUME Serialised, Types, Pages, RowsTogether, [Next]_vars
  PROVE  Pages'
<1> USE NoneAssumption, PastesAssumption, FlagAssumption DEF Parts
<1>1. ASSUME NEW r \in Requests, NEW c \in Configs, NEW v \in Versions, AddRow(r,c,v)
      PROVE  Pages'
  BY <1>1 DEF Types, TypeOK, Held, Pages, RowsTogether, MayWrite, Untouched, Busy, AddRow, Takes, coreVars, fileVars
<1>2. ASSUME NEW r \in Requests, NEW c \in Configs, NEW v \in Versions, EditRow(r,c,v)
      PROVE  Pages'
  BY <1>2 DEF Types, TypeOK, Held, Pages, RowsTogether, MayWrite, Untouched, Busy, EditRow, Takes, coreVars, fileVars
<1>3. ASSUME NEW r \in Requests, AddNet(r)
      PROVE  Pages'
  BY <1>3 DEF Types, TypeOK, Held, Pages, RowsTogether, MayWrite, Untouched, Busy, AddNet, Answers, Takes, coreVars, fileVars
<1>4. ASSUME NEW r \in Requests, AddRefused(r)
      PROVE  Pages'
  BY <1>4 DEF Types, TypeOK, Held, Pages, RowsTogether, MayWrite, Untouched, Busy, AddRefused, coreVars, tableVars, fileVars
<1>5. ASSUME NEW r \in Requests, AddUndo(r)
      PROVE  Pages'
  BY <1>5 DEF Types, TypeOK, Held, Pages, RowsTogether, MayWrite, Untouched, Busy, AddUndo, Answers, Takes, Drop, coreVars, fileVars
<1>6. ASSUME NEW r \in Requests, EditNet(r)
      PROVE  Pages'
  BY <1>6 DEF Types, TypeOK, Held, Pages, RowsTogether, MayWrite, Untouched, Busy, EditNet, Answers, Takes, coreVars, fileVars
<1>7. ASSUME NEW r \in Requests, EditRefused(r)
      PROVE  Pages'
  BY <1>7 DEF Types, TypeOK, Held, Pages, RowsTogether, MayWrite, Untouched, Busy, EditRefused, Answers, Takes, coreVars, fileVars
<1>8. ASSUME NEW r \in Requests, KillWeb(r)
      PROVE  Pages'
  BY <1>8 DEF Types, TypeOK, Held, Pages, RowsTogether, MayWrite, Untouched, Busy, KillWeb, Answers, Takes, coreVars, fileVars
<1>9. ASSUME NEW h \in Handlers, NEW c \in Configs, Select(h,c)
      PROVE  Pages'
  BY <1>9 DEF Types, TypeOK, Held, Pages, RowsTogether, MayWrite, Untouched, Busy, Select, Goto, webVars, tableVars, fileVars
<1>10. ASSUME NEW h \in Handlers, WriteCert(h)
      PROVE  Pages'
  BY <1>10 DEF Types, TypeOK, Held, Pages, RowsTogether, MayWrite, Untouched, Busy, WriteCert, Goto, Then, webVars, tableVars
<1>11. ASSUME NEW h \in Handlers, LookDh(h)
      PROVE  Pages'
  BY <1>11 DEF Types, TypeOK, Held, Pages, RowsTogether, MayWrite, Untouched, Busy, LookDh, Goto, webVars, tableVars
<1>12. ASSUME NEW h \in Handlers, MakeDh(h)
      PROVE  Pages'
  BY <1>12 DEF Types, TypeOK, Held, Pages, RowsTogether, MayWrite, Untouched, Busy, MakeDh, Goto, webVars, tableVars
<1>13. ASSUME NEW h \in Handlers, MakeDhFails(h)
      PROVE  Pages'
  BY <1>13 DEF Types, TypeOK, Held, Pages, RowsTogether, MayWrite, Untouched, Busy, MakeDhFails, Goto, Finish, webVars, tableVars
<1>14. ASSUME NEW h \in Handlers, WriteConf(h)
      PROVE  Pages'
  BY <1>14 DEF Types, TypeOK, Held, Pages, RowsTogether, MayWrite, Untouched, Busy, WriteConf, Goto, webVars, tableVars
<1>15. ASSUME NEW h \in Handlers, Exec(h)
      PROVE  Pages'
  BY <1>15 DEF Types, TypeOK, Held, Pages, RowsTogether, MayWrite, Untouched, Busy, Exec, Goto, Finish, webVars, tableVars, fileVars
<1>16. ASSUME NEW c \in Configs, Delete(c)
      PROVE  Pages'
  BY <1>16 DEF Types, TypeOK, Held, Pages, RowsTogether, MayWrite, Untouched, Busy, Delete, Drop, webVars, coreVars, fileVars
<1>17. ASSUME NEW c \in Configs, NEW s \in Sets, Sign(c,s)
      PROVE  Pages'
  BY <1>17 DEF Types, TypeOK, Held, Pages, RowsTogether, MayWrite, Untouched, Busy, Sign, webVars, coreVars, fileVars
<1>18. CASE KillCore
  BY <1>18 DEF Types, TypeOK, Held, Pages, RowsTogether, MayWrite, Untouched, Busy, KillCore, webVars, tableVars
<1>19. CASE UNCHANGED vars
  BY <1>19 DEF Types, TypeOK, Held, Pages, RowsTogether, MayWrite, Untouched, Busy, vars, webVars, coreVars, tableVars, fileVars
<1>20. ASSUME NEW r \in Requests, Web(r) PROVE Pages'
  BY ONLY <1>20, <1>1, <1>2, <1>3, <1>4, <1>5, <1>6, <1>7, <1>8 DEF Web
<1>21. ASSUME NEW h \in Handlers, Apply(h) PROVE Pages'
  BY ONLY <1>21, <1>9, <1>10, <1>11, <1>12, <1>13, <1>14, <1>15 DEF Apply
<1>. QED BY <1>20, <1>21, <1>16, <1>17, <1>18, <1>19 DEF Next

\* The two rows of a config are written by one form.
LEMMA RowsStep ==
  ASSUME Serialised, Types, Pages, RowsTogether, [Next]_vars
  PROVE  RowsTogether'
<1> USE NoneAssumption, PastesAssumption, FlagAssumption DEF Parts
<1>1. ASSUME NEW r \in Requests, NEW c \in Configs, NEW v \in Versions, AddRow(r,c,v)
      PROVE  RowsTogether'
  BY <1>1 DEF Types, TypeOK, Pages, RowsTogether, MayWrite, Untouched, Busy, AddRow, Takes, coreVars, fileVars
<1>2. ASSUME NEW r \in Requests, NEW c \in Configs, NEW v \in Versions, EditRow(r,c,v)
      PROVE  RowsTogether'
  BY <1>2 DEF Types, TypeOK, Pages, RowsTogether, MayWrite, Untouched, Busy, EditRow, Takes, coreVars, fileVars
<1>3. ASSUME NEW r \in Requests, AddNet(r)
      PROVE  RowsTogether'
  BY <1>3 DEF Types, TypeOK, Pages, RowsTogether, MayWrite, Untouched, Busy, AddNet, Answers, Takes, coreVars, fileVars
<1>4. ASSUME NEW r \in Requests, AddRefused(r)
      PROVE  RowsTogether'
  BY <1>4 DEF Types, TypeOK, Pages, RowsTogether, MayWrite, Untouched, Busy, AddRefused, coreVars, tableVars, fileVars
<1>5. ASSUME NEW r \in Requests, AddUndo(r)
      PROVE  RowsTogether'
  BY <1>5 DEF Types, TypeOK, Pages, RowsTogether, MayWrite, Untouched, Busy, AddUndo, Answers, Takes, Drop, coreVars, fileVars
<1>6. ASSUME NEW r \in Requests, EditNet(r)
      PROVE  RowsTogether'
  BY <1>6 DEF Types, TypeOK, Pages, RowsTogether, MayWrite, Untouched, Busy, EditNet, Answers, Takes, coreVars, fileVars
<1>7. ASSUME NEW r \in Requests, EditRefused(r)
      PROVE  RowsTogether'
  BY <1>7 DEF Types, TypeOK, Pages, RowsTogether, MayWrite, Untouched, Busy, EditRefused, Answers, Takes, coreVars, fileVars
<1>8. ASSUME NEW r \in Requests, KillWeb(r)
      PROVE  RowsTogether'
  BY <1>8 DEF Types, TypeOK, Pages, RowsTogether, MayWrite, Untouched, Busy, KillWeb, Answers, Takes, coreVars, fileVars
<1>9. ASSUME NEW h \in Handlers, NEW c \in Configs, Select(h,c)
      PROVE  RowsTogether'
  BY <1>9 DEF Types, TypeOK, Pages, RowsTogether, MayWrite, Untouched, Busy, Select, Goto, webVars, tableVars, fileVars
<1>10. ASSUME NEW h \in Handlers, WriteCert(h)
      PROVE  RowsTogether'
  BY <1>10 DEF Types, TypeOK, Pages, RowsTogether, MayWrite, Untouched, Busy, WriteCert, Goto, Then, webVars, tableVars
<1>11. ASSUME NEW h \in Handlers, LookDh(h)
      PROVE  RowsTogether'
  BY <1>11 DEF Types, TypeOK, Pages, RowsTogether, MayWrite, Untouched, Busy, LookDh, Goto, webVars, tableVars
<1>12. ASSUME NEW h \in Handlers, MakeDh(h)
      PROVE  RowsTogether'
  BY <1>12 DEF Types, TypeOK, Pages, RowsTogether, MayWrite, Untouched, Busy, MakeDh, Goto, webVars, tableVars
<1>13. ASSUME NEW h \in Handlers, MakeDhFails(h)
      PROVE  RowsTogether'
  BY <1>13 DEF Types, TypeOK, Pages, RowsTogether, MayWrite, Untouched, Busy, MakeDhFails, Goto, Finish, webVars, tableVars
<1>14. ASSUME NEW h \in Handlers, WriteConf(h)
      PROVE  RowsTogether'
  BY <1>14 DEF Types, TypeOK, Pages, RowsTogether, MayWrite, Untouched, Busy, WriteConf, Goto, webVars, tableVars
<1>15. ASSUME NEW h \in Handlers, Exec(h)
      PROVE  RowsTogether'
  BY <1>15 DEF Types, TypeOK, Pages, RowsTogether, MayWrite, Untouched, Busy, Exec, Goto, Finish, webVars, tableVars, fileVars
<1>16. ASSUME NEW c \in Configs, Delete(c)
      PROVE  RowsTogether'
  BY <1>16 DEF Types, TypeOK, Pages, RowsTogether, MayWrite, Untouched, Busy, Delete, Drop, webVars, coreVars, fileVars
<1>17. ASSUME NEW c \in Configs, NEW s \in Sets, Sign(c,s)
      PROVE  RowsTogether'
  BY <1>17 DEF Types, TypeOK, Pages, RowsTogether, MayWrite, Untouched, Busy, Sign, webVars, coreVars, fileVars
<1>18. CASE KillCore
  BY <1>18 DEF Types, TypeOK, Pages, RowsTogether, MayWrite, Untouched, Busy, KillCore, webVars, tableVars
<1>19. CASE UNCHANGED vars
  BY <1>19 DEF Types, TypeOK, Pages, RowsTogether, MayWrite, Untouched, Busy, vars, webVars, coreVars, tableVars, fileVars
<1>20. ASSUME NEW r \in Requests, Web(r) PROVE RowsTogether'
  BY ONLY <1>20, <1>1, <1>2, <1>3, <1>4, <1>5, <1>6, <1>7, <1>8 DEF Web
<1>21. ASSUME NEW h \in Handlers, Apply(h) PROVE RowsTogether'
  BY ONLY <1>21, <1>9, <1>10, <1>11, <1>12, <1>13, <1>14, <1>15 DEF Apply
<1>. QED BY <1>20, <1>21, <1>16, <1>17, <1>18, <1>19 DEF Next

\* Handlers keep to themselves.
LEMMA WorkingStep ==
  ASSUME Serialised, Types, Pages, Working, [Next]_vars
  PROVE  Working'
<1> USE NoneAssumption, PastesAssumption, FlagAssumption DEF Parts
<1>1. ASSUME NEW r \in Requests, NEW c \in Configs, NEW v \in Versions, AddRow(r,c,v)
      PROVE  Working'
  BY <1>1 DEF Types, TypeOK, Held, Working, MayWrite, Untouched, Unapplied, Busy, AddRow, Takes, coreVars, fileVars
<1>2. ASSUME NEW r \in Requests, NEW c \in Configs, NEW v \in Versions, EditRow(r,c,v)
      PROVE  Working'
  BY <1>2 DEF Types, TypeOK, Held, Working, MayWrite, Untouched, Unapplied, Busy, EditRow, Takes, coreVars, fileVars
<1>3. ASSUME NEW r \in Requests, AddNet(r)
      PROVE  Working'
  BY <1>3 DEF Types, TypeOK, Held, Working, MayWrite, Untouched, Unapplied, Busy, AddNet, Answers, Takes, coreVars, fileVars
<1>4. ASSUME NEW r \in Requests, AddRefused(r)
      PROVE  Working'
  BY <1>4 DEF Types, TypeOK, Held, Working, MayWrite, Untouched, Unapplied, Busy, AddRefused, coreVars, tableVars, fileVars
<1>5. ASSUME NEW r \in Requests, AddUndo(r)
      PROVE  Working'
  BY <1>5 DEF Types, TypeOK, Held, Working, MayWrite, Untouched, Unapplied, Busy, AddUndo, Answers, Takes, Drop, coreVars, fileVars
<1>6. ASSUME NEW r \in Requests, EditNet(r)
      PROVE  Working'
  BY <1>6 DEF Types, TypeOK, Held, Working, MayWrite, Untouched, Unapplied, Busy, EditNet, Answers, Takes, coreVars, fileVars
<1>7. ASSUME NEW r \in Requests, EditRefused(r)
      PROVE  Working'
  BY <1>7 DEF Types, TypeOK, Held, Working, MayWrite, Untouched, Unapplied, Busy, EditRefused, Answers, Takes, coreVars, fileVars
<1>8. ASSUME NEW r \in Requests, KillWeb(r)
      PROVE  Working'
  BY <1>8 DEF Types, TypeOK, Held, Working, MayWrite, Untouched, Unapplied, Busy, KillWeb, Answers, Takes, coreVars, fileVars
<1>9. ASSUME NEW h \in Handlers, NEW c \in Configs, Select(h,c)
      PROVE  Working'
  BY <1>9 DEF Types, TypeOK, Held, Working, MayWrite, Untouched, Unapplied, Busy, Select, Goto, webVars, tableVars, fileVars
<1>10. ASSUME NEW h \in Handlers, WriteCert(h)
      PROVE  Working'
  BY <1>10 DEF Types, TypeOK, Held, Working, MayWrite, Untouched, Unapplied, Busy, WriteCert, Goto, Then, webVars, tableVars
<1>11. ASSUME NEW h \in Handlers, LookDh(h)
      PROVE  Working'
  BY <1>11 DEF Types, TypeOK, Held, Working, MayWrite, Untouched, Unapplied, Busy, LookDh, Goto, webVars, tableVars
<1>12. ASSUME NEW h \in Handlers, MakeDh(h)
      PROVE  Working'
  BY <1>12 DEF Types, TypeOK, Held, Working, MayWrite, Untouched, Unapplied, Busy, MakeDh, Goto, webVars, tableVars
<1>13. ASSUME NEW h \in Handlers, MakeDhFails(h)
      PROVE  Working'
  BY <1>13 DEF Types, TypeOK, Held, Working, MayWrite, Untouched, Unapplied, Busy, MakeDhFails, Goto, Finish, webVars, tableVars
<1>14. ASSUME NEW h \in Handlers, WriteConf(h)
      PROVE  Working'
  BY <1>14 DEF Types, TypeOK, Held, Working, MayWrite, Untouched, Unapplied, Busy, WriteConf, Goto, webVars, tableVars
<1>15. ASSUME NEW h \in Handlers, Exec(h)
      PROVE  Working'
  BY <1>15 DEF Types, TypeOK, Held, Working, MayWrite, Untouched, Unapplied, Busy, Exec, Goto, Finish, webVars, tableVars, fileVars
<1>16. ASSUME NEW c \in Configs, Delete(c)
      PROVE  Working'
  BY <1>16 DEF Types, TypeOK, Held, Working, MayWrite, Untouched, Unapplied, Busy, Delete, Drop, webVars, coreVars, fileVars
<1>17. ASSUME NEW c \in Configs, NEW s \in Sets, Sign(c,s)
      PROVE  Working'
  BY <1>17 DEF Types, TypeOK, Held, Working, MayWrite, Untouched, Unapplied, Busy, Sign, webVars, coreVars, fileVars
<1>18. CASE KillCore
  BY <1>18 DEF Types, TypeOK, Held, Working, MayWrite, Untouched, Unapplied, Busy, KillCore, webVars, tableVars
<1>19. CASE UNCHANGED vars
  BY <1>19 DEF Types, TypeOK, Held, Working, MayWrite, Untouched, Unapplied, Busy, vars, webVars, coreVars, tableVars, fileVars
<1>20. ASSUME NEW r \in Requests, Web(r) PROVE Working'
  BY ONLY <1>20, <1>1, <1>2, <1>3, <1>4, <1>5, <1>6, <1>7, <1>8 DEF Web
<1>21. ASSUME NEW h \in Handlers, Apply(h) PROVE Working'
  BY ONLY <1>21, <1>9, <1>10, <1>11, <1>12, <1>13, <1>14, <1>15 DEF Apply
<1>. QED BY <1>20, <1>21, <1>16, <1>17, <1>18, <1>19 DEF Next

\* Handlers write what they selected.
LEMMA WrittenStep ==
  ASSUME Serialised, Types, Pages, Working, Written, [Next]_vars
  PROVE  Written'
<1> USE NoneAssumption, PastesAssumption, FlagAssumption DEF Parts
<1>1. ASSUME NEW r \in Requests, NEW c \in Configs, NEW v \in Versions, AddRow(r,c,v)
      PROVE  Written'
  BY <1>1 DEF Types, TypeOK, Held, Working, Written, Wrote, FileSaysRow, Certificates, Selected, MayWrite, Unapplied, AddRow, Takes, coreVars, fileVars
<1>2. ASSUME NEW r \in Requests, NEW c \in Configs, NEW v \in Versions, EditRow(r,c,v)
      PROVE  Written'
  BY <1>2 DEF Types, TypeOK, Held, Working, Written, Wrote, FileSaysRow, Certificates, Selected, MayWrite, Unapplied, EditRow, Takes, coreVars, fileVars
<1>3. ASSUME NEW r \in Requests, AddNet(r)
      PROVE  Written'
  BY <1>3 DEF Types, TypeOK, Held, Working, Written, Wrote, FileSaysRow, Certificates, Selected, MayWrite, Unapplied, AddNet, Answers, Takes, coreVars, fileVars
<1>4. ASSUME NEW r \in Requests, AddRefused(r)
      PROVE  Written'
  BY <1>4 DEF Types, TypeOK, Held, Working, Written, Wrote, FileSaysRow, Certificates, Selected, MayWrite, Unapplied, AddRefused, coreVars, tableVars, fileVars
<1>5. ASSUME NEW r \in Requests, AddUndo(r)
      PROVE  Written'
  BY <1>5 DEF Types, TypeOK, Held, Working, Written, Wrote, FileSaysRow, Certificates, Selected, MayWrite, Unapplied, AddUndo, Answers, Takes, Drop, coreVars, fileVars
<1>6. ASSUME NEW r \in Requests, EditNet(r)
      PROVE  Written'
  BY <1>6 DEF Types, TypeOK, Held, Working, Written, Wrote, FileSaysRow, Certificates, Selected, MayWrite, Unapplied, EditNet, Answers, Takes, coreVars, fileVars
<1>7. ASSUME NEW r \in Requests, EditRefused(r)
      PROVE  Written'
  BY <1>7 DEF Types, TypeOK, Held, Working, Written, Wrote, FileSaysRow, Certificates, Selected, MayWrite, Unapplied, EditRefused, Answers, Takes, coreVars, fileVars
<1>8. ASSUME NEW r \in Requests, KillWeb(r)
      PROVE  Written'
  BY <1>8 DEF Types, TypeOK, Held, Working, Written, Wrote, FileSaysRow, Certificates, Selected, MayWrite, Unapplied, KillWeb, Answers, Takes, coreVars, fileVars
<1>9. ASSUME NEW h \in Handlers, NEW c \in Configs, Select(h,c)
      PROVE  Written'
  BY <1>9 DEF Types, TypeOK, Held, Working, Written, Wrote, FileSaysRow, Certificates, Selected, MayWrite, Unapplied, Select, Goto, webVars, tableVars, fileVars
<1>10. ASSUME NEW h \in Handlers, WriteCert(h)
      PROVE  Written'
  BY <1>10 DEF Types, TypeOK, Held, Working, Written, Wrote, FileSaysRow, Certificates, Selected, MayWrite, Unapplied, WriteCert, Goto, Then, webVars, tableVars
<1>11. ASSUME NEW h \in Handlers, LookDh(h)
      PROVE  Written'
  BY <1>11 DEF Types, TypeOK, Held, Working, Written, Wrote, FileSaysRow, Certificates, Selected, MayWrite, Unapplied, LookDh, Goto, webVars, tableVars
<1>12. ASSUME NEW h \in Handlers, MakeDh(h)
      PROVE  Written'
  BY <1>12 DEF Types, TypeOK, Held, Working, Written, Wrote, FileSaysRow, Certificates, Selected, MayWrite, Unapplied, MakeDh, Goto, webVars, tableVars
<1>13. ASSUME NEW h \in Handlers, MakeDhFails(h)
      PROVE  Written'
  BY <1>13 DEF Types, TypeOK, Held, Working, Written, Wrote, FileSaysRow, Certificates, Selected, MayWrite, Unapplied, MakeDhFails, Goto, Finish, webVars, tableVars
<1>14. ASSUME NEW h \in Handlers, WriteConf(h)
      PROVE  Written'
  BY <1>14 DEF Types, TypeOK, Held, Working, Written, Wrote, FileSaysRow, Certificates, Selected, MayWrite, Unapplied, WriteConf, Goto, webVars, tableVars
<1>15. ASSUME NEW h \in Handlers, Exec(h)
      PROVE  Written'
  BY <1>15 DEF Types, TypeOK, Held, Working, Written, Wrote, FileSaysRow, Certificates, Selected, MayWrite, Unapplied, Exec, Goto, Finish, webVars, tableVars, fileVars
<1>16. ASSUME NEW c \in Configs, Delete(c)
      PROVE  Written'
  BY <1>16 DEF Types, TypeOK, Held, Working, Written, Wrote, FileSaysRow, Certificates, Selected, MayWrite, Unapplied, Delete, Drop, webVars, coreVars, fileVars
<1>17. ASSUME NEW c \in Configs, NEW s \in Sets, Sign(c,s)
      PROVE  Written'
  BY <1>17 DEF Types, TypeOK, Held, Working, Written, Wrote, FileSaysRow, Certificates, Selected, MayWrite, Unapplied, Sign, webVars, coreVars, fileVars
<1>18. CASE KillCore
  BY <1>18 DEF Types, TypeOK, Held, Working, Written, Wrote, FileSaysRow, Certificates, Selected, MayWrite, Unapplied, KillCore, webVars, tableVars
<1>19. CASE UNCHANGED vars
  BY <1>19 DEF Types, TypeOK, Held, Working, Written, Wrote, FileSaysRow, Certificates, Selected, MayWrite, Unapplied, vars, webVars, coreVars, tableVars, fileVars
<1>20. ASSUME NEW r \in Requests, Web(r) PROVE Written'
  BY ONLY <1>20, <1>1, <1>2, <1>3, <1>4, <1>5, <1>6, <1>7, <1>8 DEF Web
<1>21. ASSUME NEW h \in Handlers, Apply(h) PROVE Written'
  BY ONLY <1>21, <1>9, <1>10, <1>11, <1>12, <1>13, <1>14, <1>15 DEF Apply
<1>. QED BY <1>20, <1>21, <1>16, <1>17, <1>18, <1>19 DEF Next

\* dh.pem is made once.
LEMMA DhStep ==
  ASSUME Serialised, Types, Working, Dh, [Next]_vars
  PROVE  Dh'
<1> USE NoneAssumption, PastesAssumption, FlagAssumption DEF Parts
<1>1. ASSUME NEW r \in Requests, NEW c \in Configs, NEW v \in Versions, AddRow(r,c,v)
      PROVE  Dh'
  BY <1>1 DEF Types, TypeOK, Working, Dh, AddRow, Takes, coreVars, fileVars
<1>2. ASSUME NEW r \in Requests, NEW c \in Configs, NEW v \in Versions, EditRow(r,c,v)
      PROVE  Dh'
  BY <1>2 DEF Types, TypeOK, Working, Dh, EditRow, Takes, coreVars, fileVars
<1>3. ASSUME NEW r \in Requests, AddNet(r)
      PROVE  Dh'
  BY <1>3 DEF Types, TypeOK, Working, Dh, AddNet, Answers, Takes, coreVars, fileVars
<1>4. ASSUME NEW r \in Requests, AddRefused(r)
      PROVE  Dh'
  BY <1>4 DEF Types, TypeOK, Working, Dh, AddRefused, coreVars, tableVars, fileVars
<1>5. ASSUME NEW r \in Requests, AddUndo(r)
      PROVE  Dh'
  BY <1>5 DEF Types, TypeOK, Working, Dh, AddUndo, Answers, Takes, Drop, coreVars, fileVars
<1>6. ASSUME NEW r \in Requests, EditNet(r)
      PROVE  Dh'
  BY <1>6 DEF Types, TypeOK, Working, Dh, EditNet, Answers, Takes, coreVars, fileVars
<1>7. ASSUME NEW r \in Requests, EditRefused(r)
      PROVE  Dh'
  BY <1>7 DEF Types, TypeOK, Working, Dh, EditRefused, Answers, Takes, coreVars, fileVars
<1>8. ASSUME NEW r \in Requests, KillWeb(r)
      PROVE  Dh'
  BY <1>8 DEF Types, TypeOK, Working, Dh, KillWeb, Answers, Takes, coreVars, fileVars
<1>9. ASSUME NEW h \in Handlers, NEW c \in Configs, Select(h,c)
      PROVE  Dh'
  BY <1>9 DEF Types, TypeOK, Working, Dh, Select, Goto, webVars, tableVars, fileVars
<1>10. ASSUME NEW h \in Handlers, WriteCert(h)
      PROVE  Dh'
  BY <1>10 DEF Types, TypeOK, Working, Dh, WriteCert, Goto, Then, webVars, tableVars
<1>11. ASSUME NEW h \in Handlers, LookDh(h)
      PROVE  Dh'
  BY <1>11 DEF Types, TypeOK, Working, Dh, LookDh, Goto, webVars, tableVars
<1>12. ASSUME NEW h \in Handlers, MakeDh(h)
      PROVE  Dh'
  BY <1>12 DEF Types, TypeOK, Working, Dh, MakeDh, Goto, webVars, tableVars
<1>13. ASSUME NEW h \in Handlers, MakeDhFails(h)
      PROVE  Dh'
  BY <1>13 DEF Types, TypeOK, Working, Dh, MakeDhFails, Goto, Finish, webVars, tableVars
<1>14. ASSUME NEW h \in Handlers, WriteConf(h)
      PROVE  Dh'
  BY <1>14 DEF Types, TypeOK, Working, Dh, WriteConf, Goto, webVars, tableVars
<1>15. ASSUME NEW h \in Handlers, Exec(h)
      PROVE  Dh'
  BY <1>15 DEF Types, TypeOK, Working, Dh, Exec, Goto, Finish, webVars, tableVars, fileVars
<1>16. ASSUME NEW c \in Configs, Delete(c)
      PROVE  Dh'
  BY <1>16 DEF Types, TypeOK, Working, Dh, Delete, Drop, webVars, coreVars, fileVars
<1>17. ASSUME NEW c \in Configs, NEW s \in Sets, Sign(c,s)
      PROVE  Dh'
  BY <1>17 DEF Types, TypeOK, Working, Dh, Sign, webVars, coreVars, fileVars
<1>18. CASE KillCore
  BY <1>18 DEF Types, TypeOK, Working, Dh, KillCore, webVars, tableVars
<1>19. CASE UNCHANGED vars
  BY <1>19 DEF Types, TypeOK, Working, Dh, vars, webVars, coreVars, tableVars, fileVars
<1>20. ASSUME NEW r \in Requests, Web(r) PROVE Dh'
  BY ONLY <1>20, <1>1, <1>2, <1>3, <1>4, <1>5, <1>6, <1>7, <1>8 DEF Web
<1>21. ASSUME NEW h \in Handlers, Apply(h) PROVE Dh'
  BY ONLY <1>21, <1>9, <1>10, <1>11, <1>12, <1>13, <1>14, <1>15 DEF Apply
<1>. QED BY <1>20, <1>21, <1>16, <1>17, <1>18, <1>19 DEF Next

\* Every step keeps the inductive invariant.
LEMMA IInvStep == ASSUME Serialised PROVE IInv /\ [Next]_vars => IInv'
BY TypesStep, HeldStep, PagesStep, RowsStep, WorkingStep, WrittenStep, DhStep
   DEF IInv, Types

\* The inductive invariant holds in every reachable state.
LEMMA IInvAlways == ASSUME Serialised PROVE Spec => []IInv
<1>1. IInv /\ [Next]_vars => IInv' BY IInvStep
<1>. QED BY InitIInv, <1>1, PTL DEF Spec

-----------------------------------------------------------------------------
\* Every variable keeps its type, also when applies and pages overlap.
THEOREM TypeCorrect == Spec => []TypeOK
<1>1. Init => Types BY InitIInv DEF IInv
<1>2. Types /\ [Next]_vars => Types' BY TypesStep, HeldStep DEF Types
<1>3. Types => TypeOK BY DEF Types
<1>. QED BY <1>1, <1>2, <1>3, PTL DEF Spec

\* A server that apply_config starts finds the certificates of its own row in the
\* files that all configurations share.
THEOREM CertificatesAreItsOwn == ASSUME Serialised PROVE Spec => []OwnCertificates
<1>1. IInv => OwnCertificates
  BY DEF IInv, Written, Wrote, OwnCertificates, Parts
<1>. QED BY IInvAlways, <1>1, PTL

\* Its file says what its rows say.
THEOREM FileFollowsRows == ASSUME Serialised PROVE Spec => []FileSaysRow
<1>1. IInv => FileSaysRow BY DEF IInv, Written
<1>. QED BY IInvAlways, <1>1, PTL

\* The two rows of a configuration fit together, unless a page was cut off.
THEOREM RowsFit == ASSUME Serialised PROVE Spec => []RowsTogether
<1>1. IInv => RowsTogether BY DEF IInv
<1>. QED BY IInvAlways, <1>1, PTL

\* A server gets an empty dh.pem only after a generation was cut off.
THEOREM DhIsComplete == ASSUME Serialised PROVE Spec => []DhComplete
<1>1. IInv => DhComplete BY DEF IInv, Dh, DhComplete
<1>. QED BY IInvAlways, <1>1, PTL
=============================================================================
