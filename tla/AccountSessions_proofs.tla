------------------------ MODULE AccountSessions_proofs ------------------------
(***************************************************************************)
(* Theorems of AccountSessions, for every set of tokens, passwords and     *)
(* concurrent requests.                                                    *)
(***************************************************************************)
EXTENDS AccountSessions, TLAPS

\* The step of a request in progress finds the fields of its kind.
LEMMA Kinds ==
    ASSUME NEW request \in Request
    PROVE  /\ request # Idle
           /\ request.pc = "save" => request.token \in Tokens
           /\ request.pc \in {"verify", "write"} =>
                request = [pc |-> request.pc, old |-> request.old, new |-> request.new]
                /\ request.old \in Passwords /\ request.new \in Passwords
           /\ request.pc = "toggle" => request.value \in BOOLEAN
BY DEF Request, Idle

(***************************************************************************)
(* Type correctness.  What is handed out or retired had been signed, which *)
(* takes Signed to prove.                                                  *)
(***************************************************************************)
LEMMA InitType == Init => TypeOK /\ Signed
<1>1. Init => TypeOK
  <2> SUFFICES ASSUME Init PROVE TypeOK
    OBVIOUS
  <2>1. Item \in Versions
    BY SessionAssumption DEF Init, Item, Versions
  <2> QED
    BY <2>1, SessionAssumption DEF Init, TypeOK
<1>2. Init => Signed
  BY SessionAssumption DEF Init, Signed, Idle
<1> QED
  BY <1>1, <1>2

LEMMA NextType == TypeOK /\ Signed /\ [Next]_vars => TypeOK' /\ Signed'
<1> SUFFICES ASSUME TypeOK, Signed, [Next]_vars PROVE TypeOK' /\ Signed'
  OBVIOUS
<1> USE SessionAssumption DEF TypeOK, account, tokens, Begin, Trust, Overtake, Wait, Answer
<1>1. ASSUME NEW r \in Requests, NEW v \in readable,
             NEW pw \in Passwords, NEW t \in Tokens,
             LoginRead(r, v, pw, t)
      PROVE  TypeOK' /\ Signed'
  <2>1. TypeOK'
    BY <1>1 DEF LoginRead, Request
  <2>2. Signed'
    BY <1>1 DEF LoginRead, Signed
  <2> QED
    BY <2>1, <2>2
<1>2. ASSUME NEW r \in Requests, NEW v \in readable,
             NEW presented \in Tokens, NEW t \in Tokens,
             RefreshRead(r, v, presented, t)
      PROVE  TypeOK' /\ Signed'
  <2>1. TypeOK'
    BY <1>2 DEF RefreshRead, Request
  <2>2. Signed'
    BY <1>2 DEF RefreshRead, Signed
  <2> QED
    BY <2>1, <2>2
<1>3. ASSUME NEW r \in Requests, NEW v \in readable,
             NEW old \in Passwords, NEW new \in Passwords,
             ChangeAuth(r, v, old, new)
      PROVE  TypeOK' /\ Signed'
  <2>1. TypeOK'
    BY <1>3 DEF ChangeAuth, Request
  <2>2. Signed'
    BY <1>3 DEF ChangeAuth, Signed
  <2> QED
    BY <2>1, <2>2
<1>4. ASSUME NEW r \in Requests, LogoutRead(r)
      PROVE  TypeOK' /\ Signed'
  <2>1. TypeOK'
    BY <1>4 DEF LogoutRead, Request
  <2>2. Signed'
    BY <1>4 DEF LogoutRead, Signed
  <2> QED
    BY <2>1, <2>2
<1>5. ASSUME NEW r \in Requests, NEW v \in readable, ToggleRead(r, v)
      PROVE  TypeOK' /\ Signed'
  <2>1. TypeOK'
    BY <1>5 DEF ToggleRead, Request
  <2>2. Signed'
    BY <1>5 DEF ToggleRead, Signed
  <2> QED
    BY <2>1, <2>2
<1>6. ASSUME NEW r \in Requests, Save(r)
      PROVE  TypeOK' /\ Signed'
  <2>1. TypeOK'
    BY <1>6 DEF Save, Written, Item, Versions, Store, Signed
  <2>2. Signed'
    BY <1>6 DEF Save, Store, Idle, Signed
  <2> QED
    BY <2>1, <2>2
<1>7. ASSUME NEW r \in Requests, LogoutClear(r)
      PROVE  TypeOK' /\ Signed'
  <2>1. TypeOK'
    BY <1>7 DEF LogoutClear, Written, Item, Versions, Store, Signed
  <2>2. Signed'
    BY <1>7 DEF LogoutClear, Store, Idle, Signed
  <2> QED
    BY <2>1, <2>2
<1>8. ASSUME NEW r \in Requests, NEW v \in readable, ChangeVerify(r, v)
      PROVE  TypeOK' /\ Signed'
  <2>1. TypeOK'
    <3>1. reqs' \in [Requests -> Request \cup {Idle}]
      BY <1>8 DEF ChangeVerify, Request, Idle
    <3>2. raced' \in BOOLEAN
      BY <1>8 DEF ChangeVerify
    <3> QED
      BY <1>8, <3>1, <3>2 DEF ChangeVerify
  <2>2. Signed'
    BY <1>8, Kinds DEF ChangeVerify, Idle, Signed
  <2> QED
    BY <2>1, <2>2
<1>9. ASSUME NEW r \in Requests, ChangeWrite(r)
      PROVE  TypeOK' /\ Signed'
  <2>1. TypeOK'
    BY <1>9 DEF ChangeWrite, Written, Item, Versions, Store, Request, Idle, Signed
  <2>2. Signed'
    BY <1>9 DEF ChangeWrite, Store, Idle, Signed
  <2> QED
    BY <2>1, <2>2
<1>10. ASSUME NEW r \in Requests, ToggleWrite(r)
       PROVE  TypeOK' /\ Signed'
  <2>1. TypeOK'
    <3>1. reqs[r].value \in BOOLEAN
      BY <1>10, Kinds DEF ToggleWrite, Idle
    <3>2. raced' \in BOOLEAN
      BY <1>10 DEF ToggleWrite
    <3>3. /\ active' \in BOOLEAN
          /\ stored' \in Tokens \cup {NoToken}
          /\ retired' \in SUBSET minted
          /\ reqs' \in [Requests -> Request \cup {Idle}]
      BY <1>10, <3>1 DEF ToggleWrite, Store, Signed
    <3>4. readable' \in SUBSET Versions
      BY <1>10, <3>3 DEF ToggleWrite, Written, Item, Versions
    <3> QED
      BY <1>10, <3>2, <3>3, <3>4 DEF ToggleWrite
  <2>2. Signed'
    BY <1>10 DEF ToggleWrite, Store, Idle, Signed
  <2> QED
    BY <2>1, <2>2
<1>11. ASSUME NEW r \in Requests, Fails(r)
       PROVE  TypeOK' /\ Signed'
  <2>1. TypeOK'
    BY <1>11 DEF Fails
  <2>2. Signed'
    BY <1>11 DEF Fails, Idle, Signed
  <2> QED
    BY <2>1, <2>2
<1>12. CASE CatchUp
  BY <1>12 DEF CatchUp, Item, Versions, Signed
<1>13. CASE UNCHANGED vars
  BY <1>13 DEF vars, Signed
<1> QED
  BY <1>1, <1>2, <1>3, <1>4, <1>5, <1>6, <1>7, <1>8, <1>9, <1>10, <1>11, <1>12, <1>13
  DEF Next, Start, Continue

LEMMA TypeAndSigned == Spec => [](TypeOK /\ Signed)
BY InitType, NextType, PTL DEF Spec

(***************************************************************************)
(* Every reachable state has the declared types; in particular a token at  *)
(* a client, or retired, has been signed.                                  *)
(***************************************************************************)
THEOREM TypeCorrect == Spec => []TypeOK
BY TypeAndSigned, PTL

(***************************************************************************)
(* Tokens are saved once, so that what is stored was never retired.        *)
(***************************************************************************)
LEMMA NextOnce ==
    TypeOK /\ Signed /\ SavedOnce /\ RetiredStaysRetired /\ [Next]_vars
      => SavedOnce' /\ RetiredStaysRetired'
<1> SUFFICES ASSUME TypeOK, Signed, SavedOnce, RetiredStaysRetired, [Next]_vars
             PROVE  SavedOnce' /\ RetiredStaysRetired'
  OBVIOUS
<1> USE SessionAssumption DEF TypeOK, account, tokens, Begin, Wait, Answer
<1>1. ASSUME NEW r \in Requests, NEW v \in readable,
             NEW pw \in Passwords, NEW t \in Tokens,
             LoginRead(r, v, pw, t)
      PROVE  SavedOnce' /\ RetiredStaysRetired'
  <2>1. SavedOnce'
    BY <1>1 DEF LoginRead, Signed, SavedOnce
  <2>2. RetiredStaysRetired'
    BY <1>1 DEF LoginRead, RetiredStaysRetired
  <2> QED
    BY <2>1, <2>2
<1>2. ASSUME NEW r \in Requests, NEW v \in readable,
             NEW presented \in Tokens, NEW t \in Tokens,
             RefreshRead(r, v, presented, t)
      PROVE  SavedOnce' /\ RetiredStaysRetired'
  <2>1. SavedOnce'
    BY <1>2 DEF RefreshRead, Signed, SavedOnce
  <2>2. RetiredStaysRetired'
    BY <1>2 DEF RefreshRead, RetiredStaysRetired
  <2> QED
    BY <2>1, <2>2
<1>3. ASSUME NEW r \in Requests, NEW v \in readable,
             NEW old \in Passwords, NEW new \in Passwords,
             ChangeAuth(r, v, old, new)
      PROVE  SavedOnce' /\ RetiredStaysRetired'
  <2>1. SavedOnce'
    BY <1>3 DEF ChangeAuth, SavedOnce
  <2>2. RetiredStaysRetired'
    BY <1>3 DEF ChangeAuth, RetiredStaysRetired
  <2> QED
    BY <2>1, <2>2
<1>4. ASSUME NEW r \in Requests, LogoutRead(r)
      PROVE  SavedOnce' /\ RetiredStaysRetired'
  <2>1. SavedOnce'
    BY <1>4 DEF LogoutRead, SavedOnce
  <2>2. RetiredStaysRetired'
    BY <1>4 DEF LogoutRead, RetiredStaysRetired
  <2> QED
    BY <2>1, <2>2
<1>5. ASSUME NEW r \in Requests, NEW v \in readable, ToggleRead(r, v)
      PROVE  SavedOnce' /\ RetiredStaysRetired'
  <2>1. SavedOnce'
    BY <1>5 DEF ToggleRead, SavedOnce
  <2>2. RetiredStaysRetired'
    BY <1>5 DEF ToggleRead, RetiredStaysRetired
  <2> QED
    BY <2>1, <2>2
<1>6. ASSUME NEW r \in Requests, Save(r)
      PROVE  SavedOnce' /\ RetiredStaysRetired'
  <2>1. SavedOnce'
    BY <1>6 DEF Save, Store, Idle, SavedOnce
  <2>2. RetiredStaysRetired'
    BY <1>6 DEF Save, Store, SavedOnce, RetiredStaysRetired
  <2> QED
    BY <2>1, <2>2
<1>7. ASSUME NEW r \in Requests, LogoutClear(r)
      PROVE  SavedOnce' /\ RetiredStaysRetired'
  <2>1. SavedOnce'
    BY <1>7 DEF LogoutClear, Store, Idle, Signed, SavedOnce
  <2>2. RetiredStaysRetired'
    BY <1>7 DEF LogoutClear, Store, RetiredStaysRetired
  <2> QED
    BY <2>1, <2>2
<1>8. ASSUME NEW r \in Requests, NEW v \in readable, ChangeVerify(r, v)
      PROVE  SavedOnce' /\ RetiredStaysRetired'
  <2>1. SavedOnce'
    BY <1>8, Kinds DEF ChangeVerify, Idle, SavedOnce
  <2>2. RetiredStaysRetired'
    BY <1>8 DEF ChangeVerify, RetiredStaysRetired
  <2> QED
    BY <2>1, <2>2
<1>9. ASSUME NEW r \in Requests, ChangeWrite(r)
      PROVE  SavedOnce' /\ RetiredStaysRetired'
  <2>1. SavedOnce'
    BY <1>9 DEF ChangeWrite, Store, Idle, Signed, SavedOnce
  <2>2. RetiredStaysRetired'
    BY <1>9 DEF ChangeWrite, Store, RetiredStaysRetired
  <2> QED
    BY <2>1, <2>2
<1>10. ASSUME NEW r \in Requests, ToggleWrite(r)
       PROVE  SavedOnce' /\ RetiredStaysRetired'
  <2>1. SavedOnce'
    BY <1>10 DEF ToggleWrite, Store, Idle, Signed, SavedOnce
  <2>2. RetiredStaysRetired'
    BY <1>10 DEF ToggleWrite, Store, RetiredStaysRetired
  <2> QED
    BY <2>1, <2>2
<1>11. ASSUME NEW r \in Requests, Fails(r)
       PROVE  SavedOnce' /\ RetiredStaysRetired'
  <2>1. SavedOnce'
    BY <1>11 DEF Fails, Idle, SavedOnce
  <2>2. RetiredStaysRetired'
    BY <1>11 DEF Fails, RetiredStaysRetired
  <2> QED
    BY <2>1, <2>2
<1>12. CASE CatchUp
  BY <1>12 DEF CatchUp, SavedOnce, RetiredStaysRetired
<1>13. CASE UNCHANGED vars
  BY <1>13 DEF vars, SavedOnce, RetiredStaysRetired
<1> QED
  BY <1>1, <1>2, <1>3, <1>4, <1>5, <1>6, <1>7, <1>8, <1>9, <1>10, <1>11, <1>12, <1>13
  DEF Next, Start, Continue

(***************************************************************************)
(* Without a race what a request has checked still holds when it writes:   *)
(* the account is active, and a token goes back to the present password.   *)
(***************************************************************************)
Serial == ReadIsCurrent /\ SuspendedHasNoSession /\ SessionHasPassword

LEMMA NextSerial ==
    ASSUME TypeOK, Signed, ~raced => Serial, [Next]_vars, ~raced'
    PROVE  Serial'
<1> USE SessionAssumption DEF TypeOK, account, tokens, Begin, Trust, Overtake, Wait, Answer
<1>1. ASSUME NEW r \in Requests, NEW v \in readable,
             NEW pw \in Passwords, NEW t \in Tokens,
             LoginRead(r, v, pw, t)
      PROVE  Serial'
  <2>1. ReadIsCurrent'
    <3>1. ~raced /\ v = Item
      BY <1>1 DEF LoginRead
    <3> QED
      BY <1>1, <3>1 DEF LoginRead, Item, Serial, ReadIsCurrent
  <2>2. SuspendedHasNoSession'
    BY <1>1 DEF LoginRead, Serial, SuspendedHasNoSession
  <2>3. SessionHasPassword'
    BY <1>1 DEF LoginRead, Serial, SessionHasPassword
  <2> QED
    BY <2>1, <2>2, <2>3 DEF Serial
<1>2. ASSUME NEW r \in Requests, NEW v \in readable,
             NEW presented \in Tokens, NEW t \in Tokens,
             RefreshRead(r, v, presented, t)
      PROVE  Serial'
  <2>1. ReadIsCurrent'
    <3>1. ~raced /\ v = Item
      BY <1>2 DEF RefreshRead
    <3>2. active /\ presented \in current
      BY <1>2, <3>1 DEF RefreshRead, Item, Serial, SessionHasPassword
    <3> QED
      BY <1>2, <3>1, <3>2 DEF RefreshRead, Serial, ReadIsCurrent
  <2>2. SuspendedHasNoSession'
    BY <1>2 DEF RefreshRead, Serial, SuspendedHasNoSession
  <2>3. SessionHasPassword'
    BY <1>2 DEF RefreshRead, Serial, SessionHasPassword
  <2> QED
    BY <2>1, <2>2, <2>3 DEF Serial
<1>3. ASSUME NEW r \in Requests, NEW v \in readable,
             NEW old \in Passwords, NEW new \in Passwords,
             ChangeAuth(r, v, old, new)
      PROVE  Serial'
  <2>1. ReadIsCurrent'
    <3>1. ~raced /\ v = Item
      BY <1>3 DEF ChangeAuth
    <3> QED
      BY <1>3, <3>1 DEF ChangeAuth, Item, Serial, ReadIsCurrent
  <2>2. SuspendedHasNoSession'
    BY <1>3 DEF ChangeAuth, Serial, SuspendedHasNoSession
  <2>3. SessionHasPassword'
    BY <1>3 DEF ChangeAuth, Serial, SessionHasPassword
  <2> QED
    BY <2>1, <2>2, <2>3 DEF Serial
<1>4. ASSUME NEW r \in Requests, LogoutRead(r)
      PROVE  Serial'
  <2>1. ReadIsCurrent'
    BY <1>4 DEF LogoutRead, Serial, ReadIsCurrent
  <2>2. SuspendedHasNoSession'
    BY <1>4 DEF LogoutRead, Serial, SuspendedHasNoSession
  <2>3. SessionHasPassword'
    BY <1>4 DEF LogoutRead, Serial, SessionHasPassword
  <2> QED
    BY <2>1, <2>2, <2>3 DEF Serial
<1>5. ASSUME NEW r \in Requests, NEW v \in readable, ToggleRead(r, v)
      PROVE  Serial'
  <2>1. ReadIsCurrent'
    BY <1>5 DEF ToggleRead, Serial, ReadIsCurrent
  <2>2. SuspendedHasNoSession'
    BY <1>5 DEF ToggleRead, Serial, SuspendedHasNoSession
  <2>3. SessionHasPassword'
    BY <1>5 DEF ToggleRead, Serial, SessionHasPassword
  <2> QED
    BY <2>1, <2>2, <2>3 DEF Serial
<1>6. ASSUME NEW r \in Requests, Save(r)
      PROVE  Serial'
  <2>1. ReadIsCurrent'
    BY <1>6 DEF Save, Idle, Serial, ReadIsCurrent
  <2>2. SuspendedHasNoSession'
    BY <1>6 DEF Save, Serial, ReadIsCurrent, SuspendedHasNoSession
  <2>3. SessionHasPassword'
    BY <1>6 DEF Save, Store, Serial, ReadIsCurrent, SessionHasPassword
  <2> QED
    BY <2>1, <2>2, <2>3 DEF Serial
<1>7. ASSUME NEW r \in Requests, LogoutClear(r)
      PROVE  Serial'
  <2>1. ReadIsCurrent'
    BY <1>7 DEF LogoutClear, Idle, Serial, ReadIsCurrent
  <2>2. SuspendedHasNoSession'
    BY <1>7 DEF LogoutClear, Store, SuspendedHasNoSession
  <2>3. SessionHasPassword'
    BY <1>7 DEF LogoutClear, Store, SessionHasPassword
  <2> QED
    BY <2>1, <2>2, <2>3 DEF Serial
<1>8. ASSUME NEW r \in Requests, NEW v \in readable, ChangeVerify(r, v)
      PROVE  Serial'
  <2>1. ReadIsCurrent'
    BY <1>8, Kinds DEF ChangeVerify, Idle, Serial, ReadIsCurrent
  <2>2. SuspendedHasNoSession'
    BY <1>8 DEF ChangeVerify, Serial, SuspendedHasNoSession
  <2>3. SessionHasPassword'
    BY <1>8 DEF ChangeVerify, Serial, SessionHasPassword
  <2> QED
    BY <2>1, <2>2, <2>3 DEF Serial
<1>9. ASSUME NEW r \in Requests, ChangeWrite(r)
      PROVE  Serial'
  <2>1. ReadIsCurrent'
    <3>1. ~raced /\ \A q \in Requests \ {r} : reqs[q].pc # "save"
      BY <1>9 DEF ChangeWrite
    <3> QED
      BY <1>9, <3>1 DEF ChangeWrite, Idle, Serial, ReadIsCurrent
  <2>2. SuspendedHasNoSession'
    BY <1>9 DEF ChangeWrite, Store, SuspendedHasNoSession
  <2>3. SessionHasPassword'
    BY <1>9 DEF ChangeWrite, Store, SessionHasPassword
  <2> QED
    BY <2>1, <2>2, <2>3 DEF Serial
<1>10. ASSUME NEW r \in Requests, ToggleWrite(r)
       PROVE  Serial'
  <2>1. ReadIsCurrent'
    <3>1. /\ ReadIsCurrent
          /\ reqs' = [reqs EXCEPT ![r] = Idle]
          /\ UNCHANGED current
      BY <1>10 DEF ToggleWrite, Idle, Serial
    <3>2. CASE reqs[r].value = TRUE
      BY <1>10, <3>1, <3>2 DEF ToggleWrite, ReadIsCurrent, Idle
    <3>3. CASE reqs[r].value = FALSE
      <4>1. \A q \in Requests \ {r} : reqs[q].pc \notin {"save", "verify", "write"}
        BY <1>10, <3>3 DEF ToggleWrite
      <4> QED
        BY <3>1, <4>1 DEF ReadIsCurrent, Idle
    <3> QED
      <4>1. reqs[r].value \in BOOLEAN
        BY <1>10, Kinds DEF ToggleWrite, Idle
      <4> QED
        BY <3>2, <3>3, <4>1
  <2>2. SuspendedHasNoSession'
    BY <1>10 DEF ToggleWrite, Store, SuspendedHasNoSession
  <2>3. SessionHasPassword'
    BY <1>10 DEF ToggleWrite, Store, Serial, SessionHasPassword
  <2> QED
    BY <2>1, <2>2, <2>3 DEF Serial
<1>11. ASSUME NEW r \in Requests, Fails(r)
       PROVE  Serial'
  <2>1. ReadIsCurrent'
    BY <1>11 DEF Fails, Idle, Serial, ReadIsCurrent
  <2>2. SuspendedHasNoSession'
    BY <1>11 DEF Fails, Serial, SuspendedHasNoSession
  <2>3. SessionHasPassword'
    BY <1>11 DEF Fails, Serial, SessionHasPassword
  <2> QED
    BY <2>1, <2>2, <2>3 DEF Serial
<1>12. CASE CatchUp
  BY <1>12
  DEF CatchUp, Serial, ReadIsCurrent, SuspendedHasNoSession, SessionHasPassword
<1>13. CASE UNCHANGED vars
  BY <1>13
  DEF vars, Serial, ReadIsCurrent, SuspendedHasNoSession, SessionHasPassword
<1> QED
  BY <1>1, <1>2, <1>3, <1>4, <1>5, <1>6, <1>7, <1>8, <1>9, <1>10, <1>11, <1>12, <1>13
  DEF Next, Start, Continue

LEMMA InitInvariant == Init => IInv
BY DEF Init, IInv, Signed, SavedOnce, RetiredStaysRetired, ReadIsCurrent,
    SuspendedHasNoSession, SessionHasPassword, Idle

LEMMA NextInvariant == TypeOK /\ IInv /\ [Next]_vars => IInv'
<1> SUFFICES ASSUME TypeOK, IInv, [Next]_vars PROVE IInv'
  OBVIOUS
<1>1. Signed' /\ SavedOnce' /\ RetiredStaysRetired'
  BY NextType, NextOnce DEF IInv
<1>2. CASE ~raced'
  <2>1. Serial'
    BY <1>2, NextSerial DEF IInv, Serial
  <2> QED
    BY <1>1, <2>1 DEF IInv, Serial
<1>3. CASE raced'
  BY <1>1, <1>3 DEF IInv, SuspendedHasNoSession, SessionHasPassword
<1> QED
  BY <1>2, <1>3

LEMMA Invariance == Spec => []IInv
<1>1. TypeOK /\ IInv /\ [Next]_vars => IInv'
  BY NextInvariant
<1> QED
  BY <1>1, InitInvariant, TypeCorrect, PTL DEF Spec

(***************************************************************************)
(* A token that was replaced or cleared is never stored again, however     *)
(* many requests overlap.                                                  *)
(***************************************************************************)
THEOREM RetiredTheorem == Spec => []RetiredStaysRetired
<1>1. IInv => RetiredStaysRetired
  BY DEF IInv
<1> QED
  BY <1>1, Invariance, PTL

(***************************************************************************)
(* Without a race a suspended account has no session to come back to.      *)
(***************************************************************************)
THEOREM SuspendedTheorem == Spec => []SuspendedHasNoSession
<1>1. IInv => SuspendedHasNoSession
  BY DEF IInv
<1> QED
  BY <1>1, Invariance, PTL

(***************************************************************************)
(* Without a race a session goes back to a login with the password that    *)
(* the account has now.                                                    *)
(***************************************************************************)
THEOREM PasswordTheorem == Spec => []SessionHasPassword
<1>1. IInv => SessionHasPassword
  BY DEF IInv
<1> QED
  BY <1>1, Invariance, PTL

-----------------------------------------------------------------------------
(***************************************************************************)
(* AccountSessions implements Session: reads are stutters, and without a   *)
(* race what has been read still holds at the write.                       *)
(***************************************************************************)
LEMMA InitSession == Init => View!Init
BY DEF Init, View!Init

LEMMA NextSession == TypeOK /\ IInv /\ [Next]_vars => [View!Next]_(View!vars)
<1> SUFFICES ASSUME TypeOK, IInv, [Next]_vars
             PROVE  View!Next \/ UNCHANGED View!vars
  OBVIOUS
<1> USE DEF TypeOK, Wait, Answer
<1>1. CASE raced'
  BY <1>1 DEF View!Next, View!Break
<1>2. CASE ~raced'
  <2>1. ~raced /\ UNCHANGED raced
    <3>1. ASSUME NEW r \in Requests, Start(r)
          PROVE  raced' = raced \/ raced' = TRUE
      BY <3>1 DEF Start, Trust, LoginRead, RefreshRead, LogoutRead, ChangeAuth,
                  ToggleRead
    <3>2. ASSUME NEW r \in Requests, Continue(r) \/ Fails(r)
          PROVE  raced' = raced \/ raced' = TRUE
      BY <3>2 DEF Continue, Save, LogoutClear, ChangeVerify, ChangeWrite, ToggleWrite,
                  Trust, Overtake, Fails
    <3>3. raced' = raced \/ raced' = TRUE
      BY <3>1, <3>2 DEF Next, CatchUp, vars
    <3> QED
      BY <1>2, <3>3
  <2>2. ReadIsCurrent
    BY <2>1 DEF IInv
  <2> HIDE DEF Wait, Answer
  <2>0. \A r \in Requests : reqs[r].pc # "idle" => reqs[r] \in Request
    BY DEF Idle
  <2>3. ASSUME NEW r \in Requests, Save(r)
        PROVE  View!Next
    <3>1. /\ reqs[r].token \in Tokens
          /\ reqs[r].token \notin retired \cup {stored}
      BY <2>0, <2>3, Kinds DEF Save, IInv, SavedOnce
    <3>2. View!Open(reqs[r].token)
      BY <2>1, <2>2, <2>3, <3>1
      DEF Save, Store, ReadIsCurrent, View!Open, View!Spend, SessionAssumption
    <3> QED
      BY <3>1, <3>2 DEF View!Next
  <2>4. ASSUME NEW r \in Requests, LogoutClear(r)
        PROVE  View!Next
    BY <2>1, <2>4 DEF LogoutClear, Store, View!Close, View!Spend, View!Next
  <2>5. ASSUME NEW r \in Requests, ChangeWrite(r)
        PROVE  View!Next
    <3>1. reqs[r].new \in Passwords
      BY <2>0, <2>5, Kinds DEF ChangeWrite
    <3>2. View!NewPassword(reqs[r].new)
      BY <2>1, <2>2, <2>5
      DEF ChangeWrite, Store, ReadIsCurrent, View!NewPassword, View!Spend
    <3> QED
      BY <3>1, <3>2 DEF View!Next
  <2>6. ASSUME NEW r \in Requests, ToggleWrite(r)
        PROVE  View!Next \/ UNCHANGED View!vars
    <3>1. CASE reqs[r].value = FALSE
      BY <2>1, <2>6, <3>1 DEF ToggleWrite, Store, View!Suspend, View!Spend, View!Next
    <3>2. CASE reqs[r].value = TRUE
      <4>1. active' = TRUE /\ UNCHANGED <<password, stored, retired>>
        BY <2>6, <3>2 DEF ToggleWrite
      <4>2. CASE active
        BY <2>1, <4>1, <4>2 DEF View!vars
      <4>3. CASE ~active
        BY <2>1, <4>1, <4>3 DEF IInv, SuspendedHasNoSession, View!Reactivate, View!Next
      <4> QED
        BY <4>2, <4>3
    <3> QED
      BY <2>0, <2>6, <3>1, <3>2, Kinds DEF ToggleWrite
  <2>7. CASE UNCHANGED <<active, password, stored, retired>>
    BY <2>1, <2>7 DEF View!vars
  <2>8. ASSUME NEW r \in Requests, Start(r)
        PROVE  UNCHANGED <<active, password, stored, retired>>
    BY <2>8 DEF Start, LoginRead, RefreshRead, LogoutRead, ChangeAuth, ToggleRead,
                account, tokens
  <2>9. ASSUME NEW r \in Requests, Fails(r) \/ \E v \in readable : ChangeVerify(r, v)
        PROVE  UNCHANGED <<active, password, stored, retired>>
    BY <2>9 DEF ChangeVerify, Fails, account, tokens
  <2>10. CASE CatchUp \/ UNCHANGED vars
    BY <2>7, <2>10 DEF CatchUp, vars, account, tokens
  <2> QED
    BY <2>3, <2>4, <2>5, <2>6, <2>7, <2>8, <2>9, <2>10 DEF Next, Continue
<1> QED
  BY <1>1, <1>2

(***************************************************************************)
(* Login, refresh, logout, password change and suspension, each a read and *)
(* a later write without a condition, act on the account like single steps *)
(* until a suspension or password change overtakes a check: for every      *)
(* number of overlapping requests, whatever fails in between.              *)
(***************************************************************************)
THEOREM SessionTheorem == Spec => SessionSpec
<1>1. TypeOK /\ IInv /\ [Next]_vars => [View!Next]_(View!vars)
  BY NextSession
<1> QED
  BY <1>1, InitSession, TypeCorrect, Invariance, PTL
  DEF Spec, SessionSpec, View!Spec
=============================================================================
