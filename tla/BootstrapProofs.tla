--------------------------- MODULE BootstrapProofs ---------------------------
(***************************************************************************)
(* Proofs for Bootstrap: its types, the order in which a first start gives  *)
(* up the old password, and what a core that serves can rely on, for any    *)
(* number of kills and refusals.                                            *)
(***************************************************************************)
EXTENDS Bootstrap, TLAPS

\* What the place of the process says of the database and of the files: until the
\* password is cleared core.yaml is whole, the transaction holds what its
\* statements have done so far, and from "user" on everything is committed.
Progress ==
    /\ At("check") \/ At("begin") \/ pc \in ScriptPC => core = "full"
    /\ At("connect") => core = "full"
    /\ pc \in {"user", "auth", "authwrite", "clear"} => core = "full"
    /\ At("begin") \/ At("script") => pending = {}
    /\ At("grants") => pending = {"tables"}
    /\ At("commit") => pending = Whole /\ role # None
    /\ pc \in UserPC => db = Whole /\ role # None
    /\ pc \in {"auth", "authwrite"} => drawn \in Passwords
    /\ pc \in {"clear", "clearwrite"} => auth \in Passwords

\* From parse_config on there is a key; with a configured one no other is ever used.
OneKey ==
    /\ pc \notin {"down", "parse"} => key \in Keys
    /\ conf # None => /\ sealed \subseteq {conf}
                      /\ pc \notin {"down", "parse"} => key = conf

IInv == TypeOK /\ Progress /\ PasswordKept /\ ServesInitialised /\ OneKey

USE DEF ScriptPC, UserPC, BootPC, Whole

\* The inductive invariant holds at the start.
LEMMA InitIInv == Init => IInv
<1> SUFFICES ASSUME Init PROVE IInv OBVIOUS
<1> USE GivenAssumption, NoneAssumption
<1>1. TypeOK BY DEF Init, TypeOK
<1>2. Progress BY DEF Init, Progress, At
<1>3. PasswordKept /\ ServesInitialised BY DEF Init, PasswordKept, ServesInitialised, At
<1>4. OneKey BY DEF Init, OneKey
<1>. QED BY <1>1, <1>2, <1>3, <1>4 DEF IInv

\* Types are kept by every step.
LEMMA TypeOKStep == IInv /\ [Next]_vars => TypeOK'
<1> SUFFICES ASSUME TypeOK, OneKey, [Next]_vars PROVE TypeOK'
  BY DEF IInv
<1> USE GivenAssumption, NoneAssumption, FaultsAssumption
<1>1. CASE Start
  BY <1>1 DEF TypeOK, Start, At, Goto, Step, files, base, process
<1>2. CASE ParseConfig
  BY <1>2 DEF TypeOK, ParseConfig, At, Goto, files, base, process
<1>3. CASE ParseFails
  BY <1>3 DEF TypeOK, ParseFails, At, Goto, Exit, files, base, process
<1>4. CASE ConnectDb
  BY <1>4 DEF TypeOK, ConnectDb, At, Goto, Step, files, base, process
<1>5. CASE CheckDb
  BY <1>5 DEF TypeOK, CheckDb, At, Goto, Step, files, base, process
<1>6. CASE Begin
  BY <1>6 DEF TypeOK, Begin, At, Goto, Step, files, base, process
<1>7. CASE Tables
  BY <1>7 DEF TypeOK, Tables, At, Goto, Step, files, base, process
<1>8. CASE Grants
  BY <1>8 DEF TypeOK, Grants, At, Goto, Step, files, base, process
<1>9. CASE ScriptFails
  BY <1>9 DEF TypeOK, ScriptFails, At, Goto, Exit, files, base, process
<1>10. CASE Commit
  BY <1>10 DEF TypeOK, Commit, At, Goto, Step, files, base, process
<1>11. CASE NoRandom
  BY <1>11 DEF TypeOK, NoRandom, At, Goto, Step, files, base, process
<1>12. CASE CreateUser
  BY <1>12 DEF TypeOK, CreateUser, At, Goto, files, base, process
<1>13. CASE ClearedTwice
  BY <1>13 DEF TypeOK, ClearedTwice, At, Goto, Exit, files, base, process
<1>14. CASE AuthOpen
  BY <1>14 DEF TypeOK, AuthOpen, At, Goto, Step, files, base, process
<1>15. CASE AuthFails
  BY <1>15 DEF TypeOK, AuthFails, At, Goto, Exit, files, base, process
<1>16. CASE AuthWrite
  BY <1>16 DEF TypeOK, AuthWrite, At, Goto, files, base, process
<1>17. CASE ClearOpen
  BY <1>17 DEF TypeOK, ClearOpen, At, Goto, Step, files, base, process
<1>18. CASE ClearFails
  BY <1>18 DEF TypeOK, ClearFails, At, Goto, Step, files, base, process
<1>19. CASE ClearWrite
  BY <1>19 DEF TypeOK, ClearWrite, At, Goto, Step, files, base, process
<1>20. CASE Kill
  <2>1. faults' \in Nat BY <1>20, FaultsAssumption DEF TypeOK, Kill, Fault
  <2>. QED BY <1>20, <2>1 DEF TypeOK, Kill, At, Goto, Exit, Running, files
<1>21. CASE Stop
  BY <1>21 DEF TypeOK, Stop, At, Goto, Exit, files, base, process
<1>22. CASE CreateRole
  BY <1>22 DEF TypeOK, CreateRole, At, Goto, files, base, process
<1>23. CASE CheckFails
  <2>1. faults' \in Nat BY <1>23, FaultsAssumption DEF TypeOK, CheckFails, Fault
  <2>. QED BY <1>23, <2>1 DEF TypeOK, CheckFails, At, Goto, Step, files, base
<1>24. CASE Refuse
  <2>1. faults' \in Nat BY <1>24, FaultsAssumption DEF TypeOK, Refuse, Fault
  <2>. QED BY <1>24, <2>1 DEF TypeOK, Refuse, At, Goto, Exit, files
<1>25. CASE Seal
  BY <1>25 DEF TypeOK, OneKey, Seal, At, Goto, files, base, process
<1>26. CASE UNCHANGED vars
  BY <1>26 DEF TypeOK, vars, files, base, process, At
<1>. QED BY <1>1, <1>2, <1>3, <1>4, <1>5, <1>6, <1>7, <1>8, <1>9, <1>10, <1>11, <1>12, <1>13, <1>14, <1>15, <1>16, <1>17, <1>18, <1>19, <1>20, <1>21, <1>22, <1>23, <1>24, <1>25, <1>26 DEF Next, Boot

\* The place of the process keeps saying the same of database and files.
LEMMA ProgressStep == IInv /\ [Next]_vars => Progress'
<1> SUFFICES ASSUME TypeOK, Progress, PasswordKept, [Next]_vars PROVE Progress'
  BY DEF IInv
<1> USE GivenAssumption, NoneAssumption, FaultsAssumption
<1>1. CASE Start
  BY <1>1 DEF TypeOK, Progress, PasswordKept, Start, At, Goto, Step, files, base, process
<1>2. CASE ParseConfig
  BY <1>2 DEF TypeOK, Progress, PasswordKept, ParseConfig, At, Goto, files, base, process
<1>3. CASE ParseFails
  BY <1>3 DEF TypeOK, Progress, PasswordKept, ParseFails, At, Goto, Exit, files, base, process
<1>4. CASE ConnectDb
  BY <1>4 DEF TypeOK, Progress, PasswordKept, ConnectDb, At, Goto, Step, files, base, process
<1>5. CASE CheckDb
  BY <1>5 DEF TypeOK, Progress, PasswordKept, CheckDb, At, Goto, Step, files, base, process
<1>6. CASE Begin
  BY <1>6 DEF TypeOK, Progress, PasswordKept, Begin, At, Goto, Step, files, base, process
<1>7. CASE Tables
  BY <1>7 DEF TypeOK, Progress, PasswordKept, Tables, At, Goto, Step, files, base, process
<1>8. CASE Grants
  BY <1>8 DEF TypeOK, Progress, PasswordKept, Grants, At, Goto, Step, files, base, process
<1>9. CASE ScriptFails
  BY <1>9 DEF TypeOK, Progress, PasswordKept, ScriptFails, At, Goto, Exit, files, base, process
<1>10. CASE Commit
  BY <1>10 DEF TypeOK, Progress, PasswordKept, Commit, At, Goto, Step, files, base, process
<1>11. CASE NoRandom
  BY <1>11 DEF TypeOK, Progress, PasswordKept, NoRandom, At, Goto, Step, files, base, process
<1>12. CASE CreateUser
  BY <1>12 DEF TypeOK, Progress, PasswordKept, CreateUser, At, Goto, files, base, process
<1>13. CASE ClearedTwice
  BY <1>13 DEF TypeOK, Progress, PasswordKept, ClearedTwice, At, Goto, Exit, files, base, process
<1>14. CASE AuthOpen
  BY <1>14 DEF Progress, AuthOpen, At, Goto, Step, base
<1>15. CASE AuthFails
  BY <1>15 DEF TypeOK, Progress, PasswordKept, AuthFails, At, Goto, Exit, files, base, process
<1>16. CASE AuthWrite
  BY <1>16 DEF TypeOK, Progress, PasswordKept, AuthWrite, At, Goto, files, base, process
<1>17. CASE ClearOpen
  BY <1>17 DEF TypeOK, Progress, PasswordKept, ClearOpen, At, Goto, Step, files, base, process
<1>18. CASE ClearFails
  BY <1>18 DEF TypeOK, Progress, PasswordKept, ClearFails, At, Goto, Step, files, base, process
<1>19. CASE ClearWrite
  BY <1>19 DEF TypeOK, Progress, PasswordKept, ClearWrite, At, Goto, Step, files, base, process
<1>20. CASE Kill
  BY <1>20 DEF TypeOK, Progress, PasswordKept, Kill, At, Goto, Exit, Fault, Running, files, base, process
<1>21. CASE Stop
  BY <1>21 DEF TypeOK, Progress, PasswordKept, Stop, At, Goto, Exit, files, base, process
<1>22. CASE CreateRole
  BY <1>22 DEF TypeOK, Progress, PasswordKept, CreateRole, At, Goto, files, base, process
<1>23. CASE CheckFails
  BY <1>23 DEF TypeOK, Progress, PasswordKept, CheckFails, At, Goto, Step, Fault, files, base, process
<1>24. CASE Refuse
  BY <1>24 DEF TypeOK, Progress, PasswordKept, Refuse, At, Goto, Exit, Fault, files, base, process
<1>25. CASE Seal
  BY <1>25 DEF TypeOK, Progress, PasswordKept, Seal, At, Goto, files, base, process
<1>26. CASE UNCHANGED vars
  BY <1>26 DEF TypeOK, Progress, PasswordKept, vars, files, base, process, At
<1>. QED BY <1>1, <1>2, <1>3, <1>4, <1>5, <1>6, <1>7, <1>8, <1>9, <1>10, <1>11, <1>12, <1>13, <1>14, <1>15, <1>16, <1>17, <1>18, <1>19, <1>20, <1>21, <1>22, <1>23, <1>24, <1>25, <1>26 DEF Next, Boot

\* The password is not given up early.
LEMMA KeptStep == IInv /\ [Next]_vars => PasswordKept'
<1> SUFFICES ASSUME TypeOK, Progress, PasswordKept, [Next]_vars PROVE PasswordKept'
  BY DEF IInv
<1> USE GivenAssumption, NoneAssumption, FaultsAssumption
<1>1. CASE Start
  BY <1>1 DEF TypeOK, Progress, PasswordKept, Start, At, Goto, Step, files, base, process
<1>2. CASE ParseConfig
  BY <1>2 DEF TypeOK, Progress, PasswordKept, ParseConfig, At, Goto, files, base, process
<1>3. CASE ParseFails
  BY <1>3 DEF TypeOK, Progress, PasswordKept, ParseFails, At, Goto, Exit, files, base, process
<1>4. CASE ConnectDb
  BY <1>4 DEF TypeOK, Progress, PasswordKept, ConnectDb, At, Goto, Step, files, base, process
<1>5. CASE CheckDb
  BY <1>5 DEF TypeOK, Progress, PasswordKept, CheckDb, At, Goto, Step, files, base, process
<1>6. CASE Begin
  BY <1>6 DEF TypeOK, Progress, PasswordKept, Begin, At, Goto, Step, files, base, process
<1>7. CASE Tables
  BY <1>7 DEF TypeOK, Progress, PasswordKept, Tables, At, Goto, Step, files, base, process
<1>8. CASE Grants
  BY <1>8 DEF TypeOK, Progress, PasswordKept, Grants, At, Goto, Step, files, base, process
<1>9. CASE ScriptFails
  BY <1>9 DEF TypeOK, Progress, PasswordKept, ScriptFails, At, Goto, Exit, files, base, process
<1>10. CASE Commit
  BY <1>10 DEF TypeOK, Progress, PasswordKept, Commit, At, Goto, Step, files, base, process
<1>11. CASE NoRandom
  BY <1>11 DEF TypeOK, Progress, PasswordKept, NoRandom, At, Goto, Step, files, base, process
<1>12. CASE CreateUser
  BY <1>12 DEF TypeOK, Progress, PasswordKept, CreateUser, At, Goto, files, base, process
<1>13. CASE ClearedTwice
  BY <1>13 DEF TypeOK, Progress, PasswordKept, ClearedTwice, At, Goto, Exit, files, base, process
<1>14. CASE AuthOpen
  BY <1>14 DEF TypeOK, Progress, PasswordKept, AuthOpen, At, Goto, Step, files, base, process
<1>15. CASE AuthFails
  BY <1>15 DEF TypeOK, Progress, PasswordKept, AuthFails, At, Goto, Exit, files, base, process
<1>16. CASE AuthWrite
  BY <1>16 DEF TypeOK, Progress, PasswordKept, AuthWrite, At, Goto, files, base, process
<1>17. CASE ClearOpen
  BY <1>17 DEF TypeOK, Progress, PasswordKept, ClearOpen, At, Goto, Step, files, base, process
<1>18. CASE ClearFails
  BY <1>18 DEF TypeOK, Progress, PasswordKept, ClearFails, At, Goto, Step, files, base, process
<1>19. CASE ClearWrite
  BY <1>19 DEF TypeOK, Progress, PasswordKept, ClearWrite, At, Goto, Step, files, base, process
<1>20. CASE Kill
  BY <1>20 DEF TypeOK, Progress, PasswordKept, Kill, At, Goto, Exit, Fault, Running, files, base, process
<1>21. CASE Stop
  BY <1>21 DEF TypeOK, Progress, PasswordKept, Stop, At, Goto, Exit, files, base, process
<1>22. CASE CreateRole
  BY <1>22 DEF TypeOK, Progress, PasswordKept, CreateRole, At, Goto, files, base, process
<1>23. CASE CheckFails
  BY <1>23 DEF TypeOK, Progress, PasswordKept, CheckFails, At, Goto, Step, Fault, files, base, process
<1>24. CASE Refuse
  BY <1>24 DEF TypeOK, Progress, PasswordKept, Refuse, At, Goto, Exit, Fault, files, base, process
<1>25. CASE Seal
  BY <1>25 DEF TypeOK, Progress, PasswordKept, Seal, At, Goto, files, base, process
<1>26. CASE UNCHANGED vars
  BY <1>26 DEF TypeOK, Progress, PasswordKept, vars, files, base, process, At
<1>. QED BY <1>1, <1>2, <1>3, <1>4, <1>5, <1>6, <1>7, <1>8, <1>9, <1>10, <1>11, <1>12, <1>13, <1>14, <1>15, <1>16, <1>17, <1>18, <1>19, <1>20, <1>21, <1>22, <1>23, <1>24, <1>25, <1>26 DEF Next, Boot

\* Only a core with tables, or one that could not ask, comes to serve.
LEMMA ServesStep == IInv /\ [Next]_vars => ServesInitialised'
<1> SUFFICES ASSUME TypeOK, Progress, ServesInitialised, [Next]_vars PROVE ServesInitialised'
  BY DEF IInv
<1> USE GivenAssumption, NoneAssumption, FaultsAssumption
<1>1. CASE Start
  BY <1>1 DEF TypeOK, Progress, ServesInitialised, Start, At, Goto, Step, files, base, process
<1>2. CASE ParseConfig
  BY <1>2 DEF TypeOK, Progress, ServesInitialised, ParseConfig, At, Goto, files, base, process
<1>3. CASE ParseFails
  BY <1>3 DEF TypeOK, Progress, ServesInitialised, ParseFails, At, Goto, Exit, files, base, process
<1>4. CASE ConnectDb
  BY <1>4 DEF TypeOK, Progress, ServesInitialised, ConnectDb, At, Goto, Step, files, base, process
<1>5. CASE CheckDb
  BY <1>5 DEF TypeOK, Progress, ServesInitialised, CheckDb, At, Goto, Step, files, base, process
<1>6. CASE Begin
  BY <1>6 DEF TypeOK, Progress, ServesInitialised, Begin, At, Goto, Step, files, base, process
<1>7. CASE Tables
  BY <1>7 DEF TypeOK, Progress, ServesInitialised, Tables, At, Goto, Step, files, base, process
<1>8. CASE Grants
  BY <1>8 DEF TypeOK, Progress, ServesInitialised, Grants, At, Goto, Step, files, base, process
<1>9. CASE ScriptFails
  BY <1>9 DEF TypeOK, Progress, ServesInitialised, ScriptFails, At, Goto, Exit, files, base, process
<1>10. CASE Commit
  BY <1>10 DEF TypeOK, Progress, ServesInitialised, Commit, At, Goto, Step, files, base, process
<1>11. CASE NoRandom
  BY <1>11 DEF TypeOK, Progress, ServesInitialised, NoRandom, At, Goto, Step, files, base, process
<1>12. CASE CreateUser
  BY <1>12 DEF TypeOK, Progress, ServesInitialised, CreateUser, At, Goto, files, base, process
<1>13. CASE ClearedTwice
  BY <1>13 DEF TypeOK, Progress, ServesInitialised, ClearedTwice, At, Goto, Exit, files, base, process
<1>14. CASE AuthOpen
  BY <1>14 DEF TypeOK, Progress, ServesInitialised, AuthOpen, At, Goto, Step, files, base, process
<1>15. CASE AuthFails
  BY <1>15 DEF TypeOK, Progress, ServesInitialised, AuthFails, At, Goto, Exit, files, base, process
<1>16. CASE AuthWrite
  BY <1>16 DEF TypeOK, Progress, ServesInitialised, AuthWrite, At, Goto, files, base, process
<1>17. CASE ClearOpen
  BY <1>17 DEF TypeOK, Progress, ServesInitialised, ClearOpen, At, Goto, Step, files, base, process
<1>18. CASE ClearFails
  BY <1>18 DEF TypeOK, Progress, ServesInitialised, ClearFails, At, Goto, Step, files, base, process
<1>19. CASE ClearWrite
  BY <1>19 DEF TypeOK, Progress, ServesInitialised, ClearWrite, At, Goto, Step, files, base, process
<1>20. CASE Kill
  BY <1>20 DEF TypeOK, Progress, ServesInitialised, Kill, At, Goto, Exit, Fault, Running, files, base, process
<1>21. CASE Stop
  BY <1>21 DEF TypeOK, Progress, ServesInitialised, Stop, At, Goto, Exit, files, base, process
<1>22. CASE CreateRole
  BY <1>22 DEF TypeOK, Progress, ServesInitialised, CreateRole, At, Goto, files, base, process
<1>23. CASE CheckFails
  BY <1>23 DEF TypeOK, Progress, ServesInitialised, CheckFails, At, Goto, Step, Fault, files, base, process
<1>24. CASE Refuse
  BY <1>24 DEF TypeOK, Progress, ServesInitialised, Refuse, At, Goto, Exit, Fault, files, base, process
<1>25. CASE Seal
  BY <1>25 DEF TypeOK, Progress, ServesInitialised, Seal, At, Goto, files, base, process
<1>26. CASE UNCHANGED vars
  BY <1>26 DEF TypeOK, Progress, ServesInitialised, vars, files, base, process, At
<1>. QED BY <1>1, <1>2, <1>3, <1>4, <1>5, <1>6, <1>7, <1>8, <1>9, <1>10, <1>11, <1>12, <1>13, <1>14, <1>15, <1>16, <1>17, <1>18, <1>19, <1>20, <1>21, <1>22, <1>23, <1>24, <1>25, <1>26 DEF Next, Boot

\* A configured key is the only one in use.
LEMMA OneKeyStep == IInv /\ [Next]_vars => OneKey'
<1> SUFFICES ASSUME TypeOK, OneKey, [Next]_vars PROVE OneKey'
  BY DEF IInv
<1> USE GivenAssumption, NoneAssumption, FaultsAssumption
<1>1. CASE Start
  BY <1>1 DEF TypeOK, OneKey, Start, At, Goto, Step, files, base, process
<1>2. CASE ParseConfig
  BY <1>2 DEF TypeOK, OneKey, ParseConfig, At, Goto, files, base, process
<1>3. CASE ParseFails
  BY <1>3 DEF TypeOK, OneKey, ParseFails, At, Goto, Exit, files, base, process
<1>4. CASE ConnectDb
  BY <1>4 DEF TypeOK, OneKey, ConnectDb, At, Goto, Step, files, base, process
<1>5. CASE CheckDb
  BY <1>5 DEF TypeOK, OneKey, CheckDb, At, Goto, Step, files, base, process
<1>6. CASE Begin
  BY <1>6 DEF TypeOK, OneKey, Begin, At, Goto, Step, files, base, process
<1>7. CASE Tables
  BY <1>7 DEF TypeOK, OneKey, Tables, At, Goto, Step, files, base, process
<1>8. CASE Grants
  BY <1>8 DEF TypeOK, OneKey, Grants, At, Goto, Step, files, base, process
<1>9. CASE ScriptFails
  BY <1>9 DEF TypeOK, OneKey, ScriptFails, At, Goto, Exit, files, base, process
<1>10. CASE Commit
  BY <1>10 DEF TypeOK, OneKey, Commit, At, Goto, Step, files, base, process
<1>11. CASE NoRandom
  BY <1>11 DEF TypeOK, OneKey, NoRandom, At, Goto, Step, files, base, process
<1>12. CASE CreateUser
  BY <1>12 DEF TypeOK, OneKey, CreateUser, At, Goto, files, base, process
<1>13. CASE ClearedTwice
  BY <1>13 DEF TypeOK, OneKey, ClearedTwice, At, Goto, Exit, files, base, process
<1>14. CASE AuthOpen
  BY <1>14 DEF TypeOK, OneKey, AuthOpen, At, Goto, Step, files, base, process
<1>15. CASE AuthFails
  BY <1>15 DEF TypeOK, OneKey, AuthFails, At, Goto, Exit, files, base, process
<1>16. CASE AuthWrite
  BY <1>16 DEF TypeOK, OneKey, AuthWrite, At, Goto, files, base, process
<1>17. CASE ClearOpen
  BY <1>17 DEF TypeOK, OneKey, ClearOpen, At, Goto, Step, files, base, process
<1>18. CASE ClearFails
  BY <1>18 DEF TypeOK, OneKey, ClearFails, At, Goto, Step, files, base, process
<1>19. CASE ClearWrite
  BY <1>19 DEF TypeOK, OneKey, ClearWrite, At, Goto, Step, files, base, process
<1>20. CASE Kill
  BY <1>20 DEF TypeOK, OneKey, Kill, At, Goto, Exit, Fault, Running, files, base, process
<1>21. CASE Stop
  BY <1>21 DEF TypeOK, OneKey, Stop, At, Goto, Exit, files, base, process
<1>22. CASE CreateRole
  BY <1>22 DEF TypeOK, OneKey, CreateRole, At, Goto, files, base, process
<1>23. CASE CheckFails
  BY <1>23 DEF TypeOK, OneKey, CheckFails, At, Goto, Step, Fault, files, base, process
<1>24. CASE Refuse
  BY <1>24 DEF TypeOK, OneKey, Refuse, At, Goto, Exit, Fault, files, base, process
<1>25. CASE Seal
  BY <1>25 DEF TypeOK, OneKey, Seal, At, Goto, files, base, process
<1>26. CASE UNCHANGED vars
  BY <1>26 DEF TypeOK, OneKey, vars, files, base, process, At
<1>. QED BY <1>1, <1>2, <1>3, <1>4, <1>5, <1>6, <1>7, <1>8, <1>9, <1>10, <1>11, <1>12, <1>13, <1>14, <1>15, <1>16, <1>17, <1>18, <1>19, <1>20, <1>21, <1>22, <1>23, <1>24, <1>25, <1>26 DEF Next, Boot

\* Every step keeps the inductive invariant.
LEMMA IInvStep == IInv /\ [Next]_vars => IInv'
BY TypeOKStep, ProgressStep, KeptStep, ServesStep, OneKeyStep DEF IInv

\* The inductive invariant holds in every reachable state.
LEMMA IInvAlways == Spec => []IInv
BY InitIInv, IInvStep, PTL DEF Spec

-----------------------------------------------------------------------------
\* Every variable keeps its type; only a process in its transaction has work pending.
THEOREM TypeCorrect == Spec => []TypeOK
<1>1. IInv => TypeOK BY DEF IInv
<1>. QED BY IInvAlways, <1>1, PTL

\* The password in core.yaml is given up only when the tables are committed and
\* web-db-auth carries one, wherever a first start is killed.
THEOREM PasswordIsKept == Spec => []PasswordKept
<1>1. IInv => PasswordKept BY DEF IInv
<1>. QED BY IInvAlways, <1>1, PTL

\* A core serves without tables only if the database did not answer its question.
THEOREM ServesWithTables == Spec => []ServesInitialised
<1>1. IInv => ServesInitialised BY DEF IInv
<1>. QED BY IInvAlways, <1>1, PTL

\* With a configured key, every stored private key can be decrypted after any restart.
THEOREM KeysCanBeOpened == Spec => []KeysOpen
<1>1. IInv => KeysOpen BY DEF IInv, OneKey, KeysOpen, At
<1>. QED BY IInvAlways, <1>1, PTL

\* schema.sql is committed as a whole or not at all.
THEOREM ScriptIsWhole == Spec => ScriptWhole
<1>. DEFINE AllOfIt == db' # db => db' = Whole
<1>1. IInv /\ [Next]_vars => [AllOfIt]_vars
  <2> SUFFICES ASSUME TypeOK, Progress, Next, db' # db PROVE db' = Whole
    BY DEF IInv
  <2>1. Commit
    BY DEF Next, Boot, Start, At, Goto, Step, ParseConfig, ParseFails, Exit, ConnectDb, CheckDb, Begin, Tables, Grants, ScriptFails, NoRandom, CreateUser, ClearedTwice, AuthOpen, AuthFails, AuthWrite, ClearOpen, ClearFails, ClearWrite, Kill, Fault, Running, Stop, CreateRole, CheckFails, Refuse, Seal, files, base, process
  <2>. QED BY <2>1, NoneAssumption DEF Commit, Step, At, Goto, Progress, TypeOK
<1>. QED BY IInvAlways, <1>1, PTL DEF Spec, ScriptWhole
=============================================================================
