------------------------------ MODULE Sessions ------------------------------
(***************************************************************************)
(* One user's sessions: the row of the user, the rows of refresh tokens,   *)
(* and browsers that keep a pair of tokens in their storage.  An access    *)
(* token is checked without a look at the database; when it has expired,   *)
(* the web client spends its refresh token on a new pair and sends the     *)
(* call again.  Pairs of tokens are known by an identity, which a new pair *)
(* may take over from one that no browser or call holds any more.  A token *)
(* may have expired whenever it is looked at.                              *)
(***************************************************************************)
EXTENDS Naturals, FiniteSets

CONSTANTS
  Browsers,
  Calls, OwnerOf,   \* calls that may be under way at once, and their browsers
  Pairs, NoPair,
  MaxChanges,       \* bound: password changes
  MaxEdits          \* bound: requests of administrators

ASSUME PairAssumption  == Pairs \subseteq Nat /\ NoPair \notin Pairs
ASSUME OwnerAssumption == OwnerOf \in [Calls -> Browsers]
ASSUME BoundAssumption == {MaxChanges, MaxEdits} \subseteq Nat

VARIABLES
  user,      \* users row: whether it is there and active, and its password's number
  rows,      \* pairs with a refresh_tokens row
  revoked,   \* history: pairs whose row a change of the password has deleted
  store,     \* the pair in each browser's storage
  call,      \* each call, on its way from the browser through the API server
  admin,     \* an administrator's UpdateUser, and the row it has read
  changes, edits

pairVars   == <<rows, revoked>>
boundVars  == <<changes, edits>>
serverVars == <<user, pairVars, admin, boundVars>>
vars == <<user, pairVars, store, call, admin, boundVars>>

User == [exists : BOOLEAN, active : BOOLEAN, password : Nat]
NoUser == [exists |-> FALSE, active |-> FALSE, password |-> 0]

\* What the call is for; "api" is any other than a login or a new password.
Ops == {"api", "login", "change"}

\* A call: where it is, the pair it uses or has been given, whether the web
\* client has sent it a second time, and the users row its handler has read.
Idle == [pc |-> "idle", op |-> "api", pair |-> NoPair, retried |-> FALSE, row |-> NoUser]

Init ==
  /\ user = NoUser
  /\ rows = {} /\ revoked = {}
  /\ store = [b \in Browsers |-> NoPair]
  /\ call = [c \in Calls |-> Idle]
  /\ admin = [busy |-> FALSE, row |-> NoUser]
  /\ changes = 0 /\ edits = 0

At(c, pc)   == call[c].pc = pc
Goto(c, pc) == call' = [call EXCEPT ![c].pc = pc]
Return(c)   == call' = [call EXCEPT ![c] = Idle]
Stored(c)   == store[OwnerOf[c]]
AtRest(b)   == \A c \in Calls : OwnerOf[c] = b => At(c, "idle")

Held == {store[b] : b \in Browsers} \cup {call[c].pair : c \in Calls}

-----------------------------------------------------------------------------
(* Calls of the web client.                                                *)

\* The stored access token goes with it.
Send(c, op) ==
  /\ At(c, "idle") /\ Stored(c) # NoPair
  /\ \/ op = "api" /\ UNCHANGED changes
     \/ op = "change" /\ changes < MaxChanges /\ changes' = changes + 1
  /\ call' = [call EXCEPT ![c] = [Idle EXCEPT !.pc = "auth", !.op = op]]
  /\ UNCHANGED <<user, pairVars, store, admin, edits>>

Login(c) ==
  /\ At(c, "idle") /\ Stored(c) = NoPair
  /\ call' = [call EXCEPT ![c] = [Idle EXCEPT !.pc = "l_find", !.op = "login"]]
  /\ UNCHANGED <<serverVars, store>>

\* The middleware: the signature and the expiry of the access token count.
Auth(c) ==
  /\ At(c, "auth")
  /\ \/ Goto(c, "unauthorized")  \* it has expired
     \/ call[c].op = "change" /\ Goto(c, "c_read")
     \/ call[c].op # "change" /\ Return(c)
  /\ UNCHANGED <<serverVars, store>>

\* Defect: the interceptor does not remember that it has been here.
UnauthorizedAgain(c) ==
  /\ At(c, "unauthorized")
  /\ call' = [call EXCEPT ![c].pc = IF Stored(c) = NoPair THEN "rejected" ELSE "r_find",
                          ![c].pair = Stored(c)]
  /\ UNCHANGED <<serverVars, store>>

\* A 401 answer: once for each call the stored refresh token is tried.
Unauthorized(c) ==
  /\ At(c, "unauthorized")
  /\ call' = [call EXCEPT
       ![c] = IF @.retried \/ Stored(c) = NoPair THEN [@ EXCEPT !.pc = "rejected"]
              ELSE [@ EXCEPT !.pc = "r_find", !.retried = TRUE, !.pair = Stored(c)]]
  /\ UNCHANGED <<serverVars, store>>

\* Defect: the new refresh token is not stored.
StoreAccessToken(c) ==
  /\ At(c, "r_answer")
  /\ Goto(c, "auth")
  /\ UNCHANGED <<serverVars, store>>

\* The new pair is stored, and the call sent again.
StorePair(c) ==
  /\ At(c, "r_answer")
  /\ store' = [store EXCEPT ![OwnerOf[c]] = call[c].pair]
  /\ call' = [call EXCEPT ![c].pc = IF call[c].op = "login" THEN "l_find" ELSE "auth", ![c].pair = NoPair]
  /\ UNCHANGED serverVars

\* The refresh fails: the browser is logged out, and the call fails.
Refuse(c) ==
  /\ At(c, "refused")
  /\ store' = [store EXCEPT ![OwnerOf[c]] = NoPair]
  /\ Return(c)
  /\ UNCHANGED serverVars

\* The call fails; if it was to fetch the user, its failure logs out as well.
Reject(c) ==
  /\ At(c, "rejected")
  /\ \/ UNCHANGED store
     \/ call[c].op = "api" /\ store' = [store EXCEPT ![OwnerOf[c]] = NoPair]
  /\ Return(c)
  /\ UNCHANGED serverVars

\* Once logged in, the browser fetches the user.
LoggedIn(c) ==
  /\ At(c, "l_answer")
  /\ store' = [store EXCEPT ![OwnerOf[c]] = call[c].pair]
  /\ call' = [call EXCEPT ![c] = [Idle EXCEPT !.pc = "auth"]]
  /\ UNCHANGED serverVars

\* The network fails on the way to the server or back.
LoseCall(c) ==
  /\ \/ At(c, "auth") /\ Goto(c, "rejected")
     \/ At(c, "r_find") /\ Goto(c, "refused")
     \/ At(c, "r_answer") /\ Goto(c, "refused")
     \/ At(c, "l_answer") /\ Return(c)
  /\ UNCHANGED <<serverVars, store>>

\* Nobody waits for the answer to a logout, which may be lost.
Logout(b) ==
  /\ AtRest(b) /\ store[b] # NoPair
  /\ store' = [store EXCEPT ![b] = NoPair]
  /\ rows' \in {rows \ {store[b]}, rows}
  /\ UNCHANGED <<user, revoked, call, admin, boundVars>>

-----------------------------------------------------------------------------
(* RefreshToken: the old row goes, then a new one comes.                   *)

\* Defect: a token that has expired ends the call with a state of its own.
FindUnexpired(c) ==
  /\ At(c, "r_find")
  /\ \/ call[c].pair \notin rows /\ Goto(c, "refused")
     \/ call[c].pair \in rows /\ Goto(c, "r_delete")
     \/ call[c].pair \in rows /\ Goto(c, "expired")
  /\ UNCHANGED <<serverVars, store>>

FindToken(c) ==
  /\ At(c, "r_find")
  /\ \/ call[c].pair \notin rows /\ Goto(c, "refused")
     \/ call[c].pair \in rows /\ Goto(c, "r_delete")
     \/ call[c].pair \in rows /\ Goto(c, "r_drop")  \* it has expired
  /\ UNCHANGED <<serverVars, store>>

DeleteToken(c) ==
  /\ \/ At(c, "r_drop") /\ Goto(c, "refused")
     \/ At(c, "r_delete") /\ Goto(c, "r_user")
  /\ rows' = rows \ {call[c].pair}
  /\ UNCHANGED <<user, revoked, store, admin, boundVars>>

\* The user is read for what the tokens say of it.
FindUser(c) ==
  /\ At(c, "r_user")
  /\ Goto(c, "r_issue")
  /\ UNCHANGED <<serverVars, store>>

\* generateTokenPair: any unused identity will do, so the least is taken.
IssuePair(c) ==
  \E n \in Pairs :
    /\ call[c].pc \in {"r_issue", "l_issue"} /\ n \notin Held /\ \A m \in Pairs \ Held : n <= m
    /\ rows' = (rows \cap Held) \cup {n} /\ revoked' = revoked \cap Held
    /\ call' = [call EXCEPT ![c].pair = n, ![c].pc = IF At(c, "r_issue") THEN "r_answer" ELSE "l_answer"]
    /\ UNCHANGED <<user, store, admin, boundVars>>

-----------------------------------------------------------------------------
(* Login and ChangePassword read the users row and save the whole of it,   *)
(* whatever has been saved in between: a login can undo a new password.    *)

FindByUsername(c) ==
  /\ At(c, "l_find")
  /\ \/ user.active /\ call' = [call EXCEPT ![c].row = user, ![c].pc = "l_save"]
     \/ Goto(c, "unauthorized")  \* no such user, disabled, or a wrong password
  /\ UNCHANGED <<serverVars, store>>

SaveLogin(c) ==
  /\ At(c, "l_save")
  /\ user' = call[c].row
  /\ call' = [call EXCEPT ![c].pc = "l_issue", ![c].row = NoUser]
  /\ UNCHANGED <<pairVars, store, admin, boundVars>>

ReadForChange(c) ==
  /\ At(c, "c_read")
  /\ \/ call' = [call EXCEPT ![c].row = user, ![c].pc = "c_save"]
     \/ Return(c)  \* a wrong old password
  /\ UNCHANGED <<serverVars, store>>

SavePassword(c) ==
  /\ At(c, "c_save")
  /\ user' = [call[c].row EXCEPT !.password = @ + 1]
  /\ call' = [call EXCEPT ![c].pc = "c_revoke", ![c].row = NoUser]
  /\ UNCHANGED <<pairVars, store, admin, boundVars>>

DeleteUserTokens(c) ==
  /\ At(c, "c_revoke")
  /\ rows' = {} /\ revoked' = revoked \cup rows
  /\ Return(c)
  /\ UNCHANGED <<user, store, admin, boundVars>>

-----------------------------------------------------------------------------
(* Administrators.                                                         *)

Register ==
  /\ ~user.exists
  /\ user' = [NoUser EXCEPT !.exists = TRUE, !.active = TRUE]
  /\ UNCHANGED <<pairVars, store, call, admin, boundVars>>

DeleteUser ==
  /\ user.exists /\ edits < MaxEdits /\ edits' = edits + 1
  /\ user' = [user EXCEPT !.active = FALSE]
  /\ UNCHANGED <<pairVars, store, call, admin, changes>>

UpdateUser ==
  /\ user.exists /\ ~admin.busy /\ edits < MaxEdits /\ edits' = edits + 1
  /\ \E active \in BOOLEAN : admin' = [busy |-> TRUE, row |-> [user EXCEPT !.active = active]]
  /\ UNCHANGED <<user, pairVars, store, call, changes>>

SaveUser ==
  /\ admin.busy /\ user' = admin.row
  /\ admin' = [busy |-> FALSE, row |-> NoUser]
  /\ UNCHANGED <<pairVars, store, call, boundVars>>

-----------------------------------------------------------------------------
CallStep(c) == \/ Auth(c) \/ Unauthorized(c) \/ StorePair(c) \/ Refuse(c) \/ Reject(c)
               \/ LoggedIn(c)
               \/ FindToken(c) \/ DeleteToken(c) \/ FindUser(c) \/ IssuePair(c)
               \/ FindByUsername(c) \/ SaveLogin(c)
               \/ ReadForChange(c) \/ SavePassword(c) \/ DeleteUserTokens(c)

Next == \/ \E c \in Calls : CallStep(c) \/ LoseCall(c) \/ Login(c)
                            \/ \E op \in Ops : Send(c, op)
        \/ \E b \in Browsers : Logout(b)
        \/ Register \/ DeleteUser \/ UpdateUser \/ SaveUser

Spec == Init /\ [][Next]_vars

\* The browser and the handlers carry on with what they have begun.
FairSpec == Spec /\ \A c \in Calls : WF_vars(CallStep(c))

-----------------------------------------------------------------------------
(* Properties.                                                             *)

TypeOK ==
  /\ user \in User
  /\ {rows, revoked} \subseteq SUBSET Pairs
  /\ store \in [Browsers -> Pairs \cup {NoPair}]
  /\ call \in [Calls -> [pc : {"idle", "auth", "unauthorized", "refused", "rejected",
                               "r_find", "r_drop", "r_delete", "r_user", "r_issue", "r_answer",
                               "l_find", "l_save", "l_issue", "l_answer",
                               "c_read", "c_save", "c_revoke"},
                         op : Ops, pair : Pairs \cup {NoPair}, retried : BOOLEAN, row : User]]
  /\ admin \in [busy : BOOLEAN, row : User]

\* A browser never presents a refresh token that has been rotated away, so that
\* rotation logs nobody out: the token it sends, and the one it stores while it
\* is at rest, has its row unless the password has been changed since.
StoredIsHonoured ==
  /\ \A c \in Calls : At(c, "r_find") => call[c].pair \in rows \cup revoked
  /\ \A b \in Browsers : AtRest(b) /\ store[b] # NoPair => store[b] \in rows \cup revoked

\* Every call ends, however short-lived the tokens are.
CallsEnd == \A c \in Calls : ~At(c, "idle") ~> At(c, "idle")
=============================================================================
