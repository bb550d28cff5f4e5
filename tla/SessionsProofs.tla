---------------------------- MODULE SessionsProofs ----------------------------
(***************************************************************************)
(* Proofs about Sessions, for every value of its constants.                *)
(***************************************************************************)
EXTENDS Sessions, TLAPS

Pcs == {"idle", "auth", "unauthorized", "refused", "rejected",
        "r_find", "r_drop", "r_delete", "r_user", "r_issue", "r_answer",
        "l_find", "l_save", "l_issue", "l_answer", "c_read", "c_save", "c_revoke"}

CallType == [pc : Pcs, op : Ops, pair : Pairs \cup {NoPair}, retried : BOOLEAN, row : User]

\* A browser makes one call at a time.
OneByOne == \A c, d \in Calls : OwnerOf[c] = OwnerOf[d] => c = d

\* What is held by different browsers, in store or by calls, are different pairs.
Apart ==
  /\ \A b, d \in Browsers : b # d /\ store[b] # NoPair => store[b] # store[d]
  /\ \A b \in Browsers, c \in Calls :
       OwnerOf[c] # b /\ store[b] # NoPair => store[b] # call[c].pair
  /\ \A c, d \in Calls : c # d /\ call[c].pair # NoPair => call[c].pair # call[d].pair

Honoured == rows \cup revoked

\* The browser's refresh token has been spent, and its answer has not come back.
Spent(b) ==
  \E c \in Calls : OwnerOf[c] = b /\ call[c].pc \in {"r_user", "r_issue", "r_answer", "refused"}

\* Every pair in store is honoured until it is spent, and so is every answer.
PairInv ==
  /\ Apart
  /\ \A c \in Calls :
       /\ call[c].pc \in {"r_find", "r_drop", "r_delete"} => call[c].pair = Stored(c) /\ Stored(c) # NoPair
       /\ call[c].pc \in {"r_answer", "l_answer"} => call[c].pair \in Honoured
  /\ \A b \in Browsers : store[b] = NoPair \/ Spent(b) \/ store[b] \in Honoured

\* A call that is not there is well typed.
LEMMA IdleType == Idle \in CallType /\ Idle.pc = "idle" /\ Idle.pair = NoPair /\ NoUser \in User
  BY DEF Idle, CallType, NoUser, User, Pcs, Ops

\* The initial state is well typed.
LEMMA InitType == Init => TypeOK
  BY IdleType DEF Init, TypeOK, CallType, Pcs, User

\* A call that has moved is still one.
LEMMA MoveType ==
  ASSUME call \in [Calls -> CallType], NEW c \in Calls
  PROVE  /\ \A pc \in Pcs : Goto(c, pc) => call' \in [Calls -> CallType]
         /\ Return(c) => call' \in [Calls -> CallType]
  BY IdleType DEF Goto, Return, CallType

\* Every step of a call, and of an administrator, keeps the types.
LEMMA NextType == TypeOK /\ [Next]_vars => TypeOK'
<1> SUFFICES ASSUME TypeOK, [Next]_vars PROVE TypeOK'
  OBVIOUS
<1>0. /\ call \in [Calls -> CallType] /\ user \in User /\ rows \subseteq Pairs /\ revoked \subseteq Pairs
      /\ store \in [Browsers -> Pairs \cup {NoPair}] /\ admin \in [busy : BOOLEAN, row : User]
      /\ OwnerOf \in [Calls -> Browsers]
  BY OwnerAssumption DEF TypeOK, CallType, Pcs
<1> SUFFICES /\ call' \in [Calls -> CallType] /\ user' \in User /\ rows' \subseteq Pairs
             /\ revoked' \subseteq Pairs /\ store' \in [Browsers -> Pairs \cup {NoPair}]
             /\ admin' \in [busy : BOOLEAN, row : User]
  BY DEF TypeOK, CallType, Pcs
<1>1. ASSUME NEW c \in Calls, CallStep(c) \/ LoseCall(c) \/ Login(c) \/ \E op \in Ops : Send(c, op)
      PROVE  /\ call' \in [Calls -> CallType] /\ user' \in User /\ rows' \subseteq Pairs
             /\ revoked' \subseteq Pairs /\ store' \in [Browsers -> Pairs \cup {NoPair}]
             /\ UNCHANGED admin
  <2> USE <1>0
  <2>1. call[c] \in CallType /\ call[c].row \in User /\ call[c].pair \in Pairs \cup {NoPair}
        /\ Stored(c) \in Pairs \cup {NoPair} /\ OwnerOf[c] \in Browsers
    BY DEF CallType, Stored
  <2>2. ASSUME NEW op \in Ops, Send(c, op) PROVE call' \in [Calls -> CallType]
    BY <2>2, IdleType DEF Send, CallType, Pcs
  <2>3. CASE Login(c)
    BY <2>3, IdleType DEF Login, CallType, Pcs, Ops, serverVars, pairVars
  <2>4. CASE Auth(c)
    BY <2>4, MoveType DEF Auth, Pcs, serverVars, pairVars
  <2>5. CASE Unauthorized(c)
    BY <2>1, <2>5 DEF Unauthorized, CallType, Pcs, serverVars, pairVars
  <2>6. CASE StorePair(c)
    BY <2>1, <2>6 DEF StorePair, CallType, Pcs, serverVars, pairVars
  <2>7. CASE Refuse(c) \/ Reject(c)
    BY <2>1, <2>7, MoveType DEF Refuse, Reject, serverVars, pairVars
  <2>8. CASE LoggedIn(c)
    BY <2>1, <2>8, IdleType DEF LoggedIn, CallType, Pcs, serverVars, pairVars
  <2>9. CASE LoseCall(c)
    BY <2>9, MoveType DEF LoseCall, Pcs, serverVars, pairVars
  <2>10. CASE FindToken(c)
    BY <2>10, MoveType DEF FindToken, Pcs, serverVars, pairVars
  <2>11. CASE DeleteToken(c)
    BY <2>11, MoveType DEF DeleteToken, Pcs
  <2>12. CASE FindUser(c)
    BY <2>12, MoveType DEF FindUser, Pcs, serverVars, pairVars
  <2>13. CASE IssuePair(c)
    <3>1. PICK n \in Pairs :
            /\ rows' = (rows \cap Held) \cup {n} /\ revoked' = revoked \cap Held
            /\ call' = [call EXCEPT ![c].pair = n, ![c].pc = IF At(c, "r_issue") THEN "r_answer" ELSE "l_answer"]
            /\ UNCHANGED <<user, store, admin, boundVars>>
      BY <2>13 DEF IssuePair
    <3>2. call' \in [Calls -> CallType]
      BY <2>1, <3>1, IdleType DEF CallType, Pcs
    <3> QED
      BY <3>1, <3>2
  <2>14. CASE FindByUsername(c)
    <3>1. call' \in [Calls -> CallType]
      <4>1. CASE Goto(c, "unauthorized")
        BY <4>1, MoveType DEF Pcs
      <4>2. CASE call' = [call EXCEPT ![c].row = user, ![c].pc = "l_save"]
        BY <2>1, <4>2 DEF CallType, Pcs
      <4> QED
        BY <2>14, <4>1, <4>2 DEF FindByUsername
    <3> QED
      BY <2>14, <3>1 DEF FindByUsername, serverVars, pairVars
  <2>15. CASE SaveLogin(c)
    <3>1. call' \in [Calls -> CallType]
      BY <2>1, <2>15, IdleType DEF SaveLogin, CallType, Pcs
    <3> QED
      BY <2>1, <2>15, <3>1 DEF SaveLogin, pairVars
  <2>16. CASE ReadForChange(c)
    <3>1. call' \in [Calls -> CallType]
      <4>1. CASE Return(c)
        BY <4>1, MoveType
      <4>2. CASE call' = [call EXCEPT ![c].row = user, ![c].pc = "c_save"]
        BY <2>1, <4>2 DEF CallType, Pcs
      <4> QED
        BY <2>16, <4>1, <4>2 DEF ReadForChange
    <3> QED
      BY <2>16, <3>1 DEF ReadForChange, serverVars, pairVars
  <2>17. CASE SavePassword(c)
    <3>1. call' \in [Calls -> CallType]
      BY <2>1, <2>17, IdleType DEF SavePassword, CallType, Pcs
    <3>2. user' \in User
      BY <2>1, <2>17 DEF SavePassword, User
    <3> QED
      BY <2>17, <3>1, <3>2 DEF SavePassword, pairVars
  <2>18. CASE DeleteUserTokens(c)
    BY <2>18, MoveType DEF DeleteUserTokens
  <2>19. CASE \E op \in Ops : Send(c, op)
    BY <2>2, <2>19 DEF Send, pairVars
  <2> QED
    BY <1>1, <2>3, <2>4, <2>5, <2>6, <2>7, <2>8, <2>9, <2>10, <2>11, <2>12, <2>13, <2>14, <2>15,
       <2>16, <2>17, <2>18, <2>19 DEF CallStep
<1>2. ASSUME NEW b \in Browsers, Logout(b)
      PROVE  /\ UNCHANGED <<call, user, revoked, admin>> /\ rows' \subseteq Pairs
             /\ store' \in [Browsers -> Pairs \cup {NoPair}]
  BY <1>0, <1>2 DEF Logout
<1>3. CASE Register \/ DeleteUser
  <2>1. user' \in User
    BY <1>0, <1>3, IdleType DEF Register, DeleteUser, User
  <2> QED
    BY <1>0, <1>3, <2>1 DEF Register, DeleteUser, pairVars
<1>4. CASE UpdateUser \/ SaveUser
  <2>1. CASE UpdateUser
    <3>1. \A active \in BOOLEAN : [user EXCEPT !.active = active] \in User
      BY <1>0 DEF User
    <3> QED
      BY <1>0, <2>1, <3>1 DEF UpdateUser, pairVars
  <2>2. CASE SaveUser
    BY <1>0, <2>2, IdleType DEF SaveUser, pairVars
  <2> QED
    BY <1>4, <2>1, <2>2
<1>5. CASE UNCHANGED vars
  BY <1>0, <1>5 DEF vars, pairVars
<1> QED
  BY <1>0, <1>1, <1>2, <1>3, <1>4, <1>5 DEF Next

\* Users rows, pairs of tokens and calls are what they should be.
THEOREM SessionTyping == Spec => []TypeOK
  BY InitType, NextType, PTL DEF Spec

-----------------------------------------------------------------------------
(* Rotation, if every browser makes one call at a time.                    *)

SpentPcs  == {"r_user", "r_issue", "r_answer", "refused"}
FindPcs   == {"r_find", "r_drop", "r_delete"}
AnswerPcs == {"r_answer", "l_answer"}

\* The steps of a call that leave tokens, pairs and what it is doing with them.
LEMMA PairMove ==
  ASSUME TypeOK, PairInv, NEW c \in Calls, UNCHANGED <<store, rows, revoked>>,
         \A d \in Calls \ {c} : call'[d] = call[d],
         call'[c].pair \in {call[c].pair, NoPair},
         call'[c].pc \in FindPcs => call[c].pc \in FindPcs /\ call'[c].pair = call[c].pair,
         call'[c].pc \in AnswerPcs => call[c].pc \in AnswerPcs /\ call'[c].pair = call[c].pair,
         call[c].pc \in SpentPcs => call'[c].pc \in SpentPcs
  PROVE  PairInv'
<1>1. Apart'
  BY DEF PairInv, Apart
<1>2. ASSUME NEW d \in Calls
      PROVE  /\ call'[d].pc \in FindPcs => call'[d].pair = Stored(d)' /\ Stored(d)' # NoPair
             /\ call'[d].pc \in AnswerPcs => call'[d].pair \in Honoured'
  BY DEF PairInv, Stored, Honoured, FindPcs, AnswerPcs
<1>3. ASSUME NEW b \in Browsers PROVE store'[b] = NoPair \/ Spent(b)' \/ store'[b] \in Honoured'
  BY DEF PairInv, Spent, Honoured, SpentPcs
<1> QED
  BY <1>1, <1>2, <1>3 DEF PairInv, FindPcs, AnswerPcs

\* Rotation keeps pairs apart, and honours the one that the browser will store.
LEMMA NextPair == OneByOne /\ TypeOK /\ PairInv /\ [Next]_vars => PairInv'
<1> SUFFICES ASSUME OneByOne, TypeOK, PairInv, [Next]_vars PROVE PairInv'
  OBVIOUS
<1>0. /\ call \in [Calls -> CallType] /\ store \in [Browsers -> Pairs \cup {NoPair}]
      /\ OwnerOf \in [Calls -> Browsers] /\ NoPair \notin Pairs
  BY OwnerAssumption, PairAssumption DEF TypeOK, CallType, Pcs
<1>a. \A c \in Calls : OwnerOf[c] \in Browsers /\ \A d \in Calls \ {c} : OwnerOf[d] # OwnerOf[c]
  BY <1>0 DEF OneByOne
<1>b. \A c \in Calls :
        /\ \A pc : Goto(c, pc) => /\ call'[c].pc = pc /\ call'[c].pair = call[c].pair
                                  /\ \A d \in Calls \ {c} : call'[d] = call[d]
        /\ Return(c) => /\ call'[c].pc = "idle" /\ call'[c].pair = NoPair
                        /\ \A d \in Calls \ {c} : call'[d] = call[d]
  BY <1>0 DEF Goto, Return, Idle, CallType
<1>1. ASSUME NEW c \in Calls, NEW op \in Ops, Send(c, op) PROVE PairInv'
  BY <1>0, <1>1, PairMove DEF Send, At, Idle, pairVars, FindPcs, AnswerPcs, SpentPcs
<1>2. ASSUME NEW c \in Calls, Login(c) PROVE PairInv'
  BY <1>0, <1>2, PairMove DEF Login, At, Idle, pairVars, serverVars, FindPcs, AnswerPcs, SpentPcs
<1>3. ASSUME NEW c \in Calls, Auth(c) PROVE PairInv'
  BY <1>0, <1>b, <1>3, PairMove DEF Auth, At, pairVars, serverVars, FindPcs, AnswerPcs, SpentPcs
<1>4. ASSUME NEW c \in Calls, LoseCall(c) PROVE PairInv'
  BY <1>0, <1>b, <1>4, PairMove
  DEF LoseCall, At, pairVars, serverVars, FindPcs, AnswerPcs, SpentPcs
<1>5. ASSUME NEW c \in Calls, FindToken(c) PROVE PairInv'
  BY <1>0, <1>b, <1>5, PairMove
  DEF FindToken, At, pairVars, serverVars, FindPcs, AnswerPcs, SpentPcs
<1>6. ASSUME NEW c \in Calls, FindUser(c) PROVE PairInv'
  <2>1. /\ call'[c].pc = "r_issue" /\ call'[c].pair = call[c].pair
        /\ \A d \in Calls \ {c} : call'[d] = call[d]
    BY <1>0, <1>b, <1>6 DEF FindUser
  <2> QED
    BY <1>6, <2>1, PairMove DEF FindUser, pairVars, serverVars, FindPcs, AnswerPcs, SpentPcs
<1>7. ASSUME NEW c \in Calls, FindByUsername(c) PROVE PairInv'
  <2>1. /\ call'[c].pc \in {"l_save", "unauthorized"} /\ call'[c].pair = call[c].pair
        /\ \A d \in Calls \ {c} : call'[d] = call[d]
    BY <1>0, <1>7 DEF FindByUsername, CallType, Goto
  <2> QED
    BY <1>7, <2>1, PairMove
    DEF FindByUsername, At, pairVars, serverVars, FindPcs, AnswerPcs, SpentPcs
<1>8. ASSUME NEW c \in Calls, SaveLogin(c) \/ SavePassword(c) PROVE PairInv'
  <2>1. /\ call'[c].pc \in {"l_issue", "c_revoke"} /\ call'[c].pair = call[c].pair
        /\ \A d \in Calls \ {c} : call'[d] = call[d]
    BY <1>0, <1>8 DEF SaveLogin, SavePassword, CallType
  <2> QED
    BY <1>8, <2>1, PairMove
    DEF SaveLogin, SavePassword, At, pairVars, FindPcs, AnswerPcs, SpentPcs
<1>9. ASSUME NEW c \in Calls, ReadForChange(c) PROVE PairInv'
  <2>1. /\ call'[c].pc \in {"c_save", "idle"} /\ call'[c].pair \in {call[c].pair, NoPair}
        /\ \A d \in Calls \ {c} : call'[d] = call[d]
    BY <1>0, <1>9 DEF ReadForChange, CallType, Return, Idle
  <2> QED
    BY <1>9, <2>1, PairMove
    DEF ReadForChange, At, pairVars, serverVars, FindPcs, AnswerPcs, SpentPcs
<1>10. ASSUME NEW c \in Calls, Unauthorized(c) PROVE PairInv'
  <2>1. CASE call'[c].pc = "rejected" /\ call'[c].pair = call[c].pair
    BY <1>0, <1>10, <2>1, PairMove
    DEF Unauthorized, At, pairVars, serverVars, FindPcs, AnswerPcs, SpentPcs
  <2>2. CASE call'[c].pc = "r_find" /\ call'[c].pair = Stored(c) /\ Stored(c) # NoPair
    <3>1. /\ UNCHANGED <<store, rows, revoked>> /\ At(c, "unauthorized")
          /\ \A d \in Calls \ {c} : call'[d] = call[d]
      BY <1>0, <1>10 DEF Unauthorized, serverVars, pairVars
    <3>2. Apart'
      BY <1>a, <2>2, <3>1 DEF PairInv, Apart, Stored
    <3>3. \A d \in Calls : /\ call'[d].pc \in FindPcs => call'[d].pair = Stored(d)' /\ Stored(d)' # NoPair
                           /\ call'[d].pc \in AnswerPcs => call'[d].pair \in Honoured'
      BY <2>2, <3>1 DEF PairInv, Stored, Honoured, FindPcs, AnswerPcs
    <3>4. \A b \in Browsers : store'[b] = NoPair \/ Spent(b)' \/ store'[b] \in Honoured'
      BY <3>1 DEF PairInv, Spent, Honoured, At
    <3> QED
      BY <3>2, <3>3, <3>4 DEF PairInv, FindPcs, AnswerPcs
  <2> QED
    BY <1>0, <1>10, <2>1, <2>2 DEF Unauthorized, CallType
<1>11. ASSUME NEW c \in Calls, StorePair(c) \/ LoggedIn(c) PROVE PairInv'
  <2> DEFINE b == OwnerOf[c]
  <2>1. /\ call[c].pc \in AnswerPcs /\ call'[c].pc \in {"l_find", "auth"} /\ call'[c].pair = NoPair
        /\ store'[b] = call[c].pair /\ \A d \in Browsers \ {b} : store'[d] = store[d]
        /\ \A d \in Calls \ {c} : call'[d] = call[d]
        /\ UNCHANGED <<rows, revoked>>
    BY <1>0, <1>a, <1>11
    DEF StorePair, LoggedIn, CallType, Idle, At, AnswerPcs, serverVars, pairVars
  <2>2. Apart'
    BY <1>a, <2>1 DEF PairInv, Apart
  <2>3. \A d \in Calls : /\ call'[d].pc \in FindPcs => call'[d].pair = Stored(d)' /\ Stored(d)' # NoPair
                         /\ call'[d].pc \in AnswerPcs => call'[d].pair \in Honoured'
    BY <1>a, <2>1 DEF PairInv, Stored, Honoured, FindPcs, AnswerPcs
  <2>4. store'[b] \in Honoured'
    BY <2>1 DEF PairInv, Honoured, AnswerPcs
  <2>5. \A d \in Browsers \ {b} : store'[d] = NoPair \/ Spent(d)' \/ store'[d] \in Honoured'
    BY <2>1 DEF PairInv, Spent, Honoured
  <2> QED
    BY <2>2, <2>3, <2>4, <2>5 DEF PairInv, FindPcs, AnswerPcs
<1>12. ASSUME NEW c \in Calls, Refuse(c) \/ Reject(c) PROVE PairInv'
  <2> DEFINE b == OwnerOf[c]
  <2>1. /\ call'[c].pc = "idle" /\ call'[c].pair = NoPair
        /\ \A d \in Calls \ {c} : call'[d] = call[d] /\ OwnerOf[d] # b
        /\ \A d \in Browsers \ {b} : store'[d] = store[d]
        /\ store'[b] = NoPair \/ (store'[b] = store[b] /\ call[c].pc = "rejected")
        /\ UNCHANGED <<rows, revoked>> /\ b \in Browsers
    BY <1>0, <1>a, <1>b, <1>12 DEF Refuse, Reject, At, serverVars, pairVars
  <2>2. Apart'
    BY <2>1 DEF PairInv, Apart
  <2>3. \A d \in Calls : /\ call'[d].pc \in FindPcs => call'[d].pair = Stored(d)' /\ Stored(d)' # NoPair
                         /\ call'[d].pc \in AnswerPcs => call'[d].pair \in Honoured'
    BY <1>a, <2>1 DEF PairInv, Stored, Honoured, FindPcs, AnswerPcs
  <2>4. \A d \in Browsers : store'[d] = NoPair \/ Spent(d)' \/ store'[d] \in Honoured'
    BY <2>1 DEF PairInv, Spent, Honoured
  <2> QED
    BY <2>2, <2>3, <2>4 DEF PairInv, FindPcs, AnswerPcs
<1>13. ASSUME NEW c \in Calls, DeleteToken(c) PROVE PairInv'
  <2> DEFINE b == OwnerOf[c]
  <2>1. /\ call[c].pc \in {"r_drop", "r_delete"} /\ call'[c].pc \in {"refused", "r_user"}
        /\ call'[c].pair = call[c].pair /\ call[c].pair = store[b] /\ store[b] # NoPair
        /\ \A d \in Calls \ {c} : call'[d] = call[d] /\ OwnerOf[d] # b
        /\ rows' = rows \ {store[b]} /\ UNCHANGED <<store, revoked>> /\ b \in Browsers
    BY <1>0, <1>a, <1>b, <1>13 DEF DeleteToken, At, PairInv, Stored
  <2>2. Apart'
    BY <2>1 DEF PairInv, Apart
  <2>3. \A d \in Calls : /\ call'[d].pc \in FindPcs => call'[d].pair = Stored(d)' /\ Stored(d)' # NoPair
                         /\ call'[d].pc \in AnswerPcs => call'[d].pair \in Honoured'
    BY <2>1 DEF PairInv, Stored, Honoured, FindPcs, AnswerPcs, Apart
  <2>4. Spent(b)'
    BY <2>1 DEF Spent
  <2>5. \A d \in Browsers \ {b} : store'[d] = NoPair \/ Spent(d)' \/ store'[d] \in Honoured'
    BY <2>1 DEF PairInv, Spent, Honoured, Apart
  <2> QED
    BY <2>1, <2>2, <2>3, <2>4, <2>5 DEF PairInv, FindPcs, AnswerPcs
<1>14. ASSUME NEW c \in Calls, IssuePair(c) PROVE PairInv'
  <2>1. PICK n \in Pairs :
          /\ n \notin Held /\ call[c].pc \in {"r_issue", "l_issue"}
          /\ rows' = (rows \cap Held) \cup {n} /\ revoked' = revoked \cap Held
          /\ call' = [call EXCEPT ![c].pair = n, ![c].pc = IF At(c, "r_issue") THEN "r_answer" ELSE "l_answer"]
          /\ UNCHANGED store
    BY <1>14 DEF IssuePair
  <2>2. /\ call'[c].pair = n /\ call'[c].pc \in AnswerPcs
        /\ call[c].pc = "r_issue" => call'[c].pc = "r_answer"
        /\ \A d \in Calls \ {c} : call'[d] = call[d]
    BY <1>0, <2>1 DEF CallType, AnswerPcs, At
  <2>3. /\ \A b \in Browsers : store[b] # n /\ (store[b] \in Honoured => store[b] \in Honoured')
        /\ \A d \in Calls : call[d].pair # n /\ (call[d].pair \in Honoured => call[d].pair \in Honoured')
        /\ n \in Honoured'
    BY <2>1 DEF Held, Honoured
  <2>4. Apart'
    <3>1. UNCHANGED store /\ Apart
      BY <2>1 DEF PairInv
    <3>2. \A b \in Browsers, d \in Calls :
            OwnerOf[d] # b /\ store'[b] # NoPair => store'[b] # call'[d].pair
      BY <2>2, <2>3, <3>1 DEF Apart
    <3>3. \A d, e \in Calls : d # e /\ call'[d].pair # NoPair => call'[d].pair # call'[e].pair
      BY <2>2, <2>3, <3>1 DEF Apart
    <3> QED
      BY <3>1, <3>2, <3>3 DEF Apart
  <2>5. \A d \in Calls : /\ call'[d].pc \in FindPcs => call'[d].pair = Stored(d)' /\ Stored(d)' # NoPair
                         /\ call'[d].pc \in AnswerPcs => call'[d].pair \in Honoured'
    BY <2>1, <2>2, <2>3 DEF PairInv, Stored, FindPcs, AnswerPcs
  <2>6. \A b \in Browsers : store'[b] = NoPair \/ Spent(b)' \/ store'[b] \in Honoured'
    BY <2>1, <2>2, <2>3 DEF PairInv, Spent
  <2> QED
    BY <2>4, <2>5, <2>6 DEF PairInv, FindPcs, AnswerPcs
<1>15. ASSUME NEW c \in Calls, DeleteUserTokens(c) PROVE PairInv'
  <2>1. /\ call'[c].pc = "idle" /\ call'[c].pair = NoPair /\ At(c, "c_revoke")
        /\ \A d \in Calls \ {c} : call'[d] = call[d]
        /\ UNCHANGED store /\ Honoured' = Honoured
    BY <1>b, <1>15 DEF DeleteUserTokens, Honoured
  <2>2. Apart'
    BY <2>1 DEF PairInv, Apart
  <2>3. \A d \in Calls : /\ call'[d].pc \in FindPcs => call'[d].pair = Stored(d)' /\ Stored(d)' # NoPair
                         /\ call'[d].pc \in AnswerPcs => call'[d].pair \in Honoured'
    BY <2>1 DEF PairInv, Stored, FindPcs, AnswerPcs
  <2>4. \A b \in Browsers : store'[b] = NoPair \/ Spent(b)' \/ store'[b] \in Honoured'
    BY <2>1 DEF PairInv, Spent, At
  <2> QED
    BY <2>2, <2>3, <2>4 DEF PairInv, FindPcs, AnswerPcs
<1>16. ASSUME NEW b \in Browsers, Logout(b) PROVE PairInv'
  <2>1. /\ UNCHANGED <<call, revoked>> /\ store[b] # NoPair /\ store'[b] = NoPair
        /\ \A d \in Browsers \ {b} : store'[d] = store[d]
        /\ rows' = rows \ {store[b]} \/ rows' = rows
        /\ \A d \in Calls : OwnerOf[d] = b => call[d].pc = "idle"
    BY <1>0, <1>16 DEF Logout, AtRest, At
  <2>2. Apart'
    BY <2>1 DEF PairInv, Apart
  <2>3. \A d \in Calls : /\ call'[d].pc \in FindPcs => call'[d].pair = Stored(d)' /\ Stored(d)' # NoPair
                         /\ call'[d].pc \in AnswerPcs => call'[d].pair \in Honoured'
    BY <1>a, <2>1 DEF PairInv, Stored, Honoured, FindPcs, AnswerPcs, Apart
  <2>4. \A d \in Browsers : store'[d] = NoPair \/ Spent(d)' \/ store'[d] \in Honoured'
    BY <2>1 DEF PairInv, Spent, Honoured, Apart
  <2> QED
    BY <2>2, <2>3, <2>4 DEF PairInv, FindPcs, AnswerPcs
<1>17. CASE UNCHANGED <<call, store, rows, revoked>>
  BY <1>17 DEF PairInv, Apart, Stored, Honoured, Spent
<1> QED
  BY <1>1, <1>2, <1>3, <1>4, <1>5, <1>6, <1>7, <1>8, <1>9, <1>10, <1>11, <1>12, <1>13, <1>14,
     <1>15,
     <1>16, <1>17 DEF Next, CallStep, Register, DeleteUser, UpdateUser, SaveUser, vars, pairVars

\* Rotation logs nobody out: the refresh token that a browser stores at rest, or
\* sends, has its row unless the password has been changed since.
THEOREM Rotation == ASSUME OneByOne PROVE Spec => []StoredIsHonoured
<1>1. Init => TypeOK /\ PairInv
  BY InitType, OwnerAssumption DEF Init, PairInv, Apart, Idle
<1>2. TypeOK /\ PairInv /\ [Next]_vars => TypeOK' /\ PairInv'
  BY NextType, NextPair
<1>3. TypeOK /\ PairInv => StoredIsHonoured
  <2> SUFFICES ASSUME TypeOK, PairInv PROVE StoredIsHonoured
    OBVIOUS
  <2>1. ASSUME NEW c \in Calls, At(c, "r_find") PROVE call[c].pair \in rows \cup revoked
    <3>1. ~Spent(OwnerOf[c])
      BY <2>1 DEF Spent, OneByOne, At
    <3> QED
      BY <2>1, <3>1, OwnerAssumption DEF PairInv, At, Stored, Honoured
  <2>2. ASSUME NEW b \in Browsers, AtRest(b), store[b] # NoPair PROVE store[b] \in rows \cup revoked
    BY <2>2 DEF PairInv, AtRest, At, Spent, Honoured
  <2> QED
    BY <2>1, <2>2 DEF StoredIsHonoured
<1> QED
  BY <1>1, <1>2, <1>3, PTL DEF Spec
=============================================================================
