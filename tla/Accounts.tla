------------------------------ MODULE Accounts ------------------------------
(***************************************************************************)
(* One account of backend/internal/modules/identity: its row in Postgres,  *)
(* the copy of it that GetUserByID keeps in Redis, the challenges of a     *)
(* two-factor login and the refresh tokens.  A call goes through one store *)
(* access per step, so calls interleave between any two of them.           *)
(*                                                                         *)
(* Left out: the limiters in front of the handlers (a refusal changes      *)
(* nothing here), access tokens, the session rows and the device registry. *)
(***************************************************************************)
EXTENDS Naturals, FiniteSets

CONSTANTS
  Calls, Tokens, Secrets, Challenges,
  Threshold,    \* failures that lock the account: 5
  MaxAttempts,  \* bound: no failure is counted beyond it
  OldHash,      \* TRUE: the password hash is still a bcrypt one
  Legacy,       \* the tokens an earlier version stored under their own text
  None

ASSUME AccountsAssumption ==
  /\ Threshold \in Nat \ {0} /\ MaxAttempts \in Nat /\ OldHash \in BOOLEAN
  /\ Legacy \subseteq Tokens
  /\ None \notin Tokens \cup Secrets \cup Challenges

VARIABLES
  row,        \* users: attempts, whether locked_until lies ahead, MFA
  cache,      \* user:<id>, whose JSON has no secret, or None
  shown,      \* the secrets SetupMFA has answered to the user
  refresh,    \* what became of each refresh token
  challenge,  \* what became of each challenge
  slot,       \* the request each call is
  (* History *)
  parent,     \* the token a token was exchanged for, or None
  reached,    \* attempts once came to the threshold
  proved,     \* secrets a valid code was given for, None among them
  answered    \* challenges a login was answered for

accountsVars == <<row, cache, shown, refresh, challenge, slot, parent, reached, proved, answered>>
history == <<parent, reached, proved, answered>>

Rows == [attempts: 0..MaxAttempts, locked: BOOLEAN, enabled: BOOLEAN, secret: Secrets \cup {None}]
Views == [attempts: 0..MaxAttempts, enabled: BOOLEAN, secret: Secrets \cup {None}]

(* mapUser, as far as anybody reads it, and what json:"-" leaves of it.    *)
ViewOf(r) == [attempts |-> r.attempts, enabled |-> r.enabled, secret |-> r.secret]
Stored(view) == [view EXCEPT !.secret = None]

Points == {"idle", "look", "fill", "loaded", "count", "lock", "reset", "admit", "enable", "spend", "grant"}
Slots == [op: {"none", "login", "setup", "verify", "confirm", "refresh", "me"}, pc: Points,
          view: Views, item: Challenges \cup {None}, late: BOOLEAN]

NoView == [attempts |-> 0, enabled |-> FALSE, secret |-> None]
Idle == [op |-> "none", pc |-> "idle", view |-> NoView, item |-> None, late |-> FALSE]

AccountsInit ==
  /\ row = [attempts |-> 0, locked |-> FALSE, enabled |-> FALSE, secret |-> None]
  /\ cache = None /\ shown = {}
  /\ refresh = [t \in Tokens |-> IF t \in Legacy THEN "live" ELSE "unissued"]
  /\ challenge = [h \in Challenges |-> "unissued"]
  /\ slot = [c \in Calls |-> Idle]
  /\ parent = [t \in Tokens |-> None] /\ reached = FALSE /\ proved = {} /\ answered = {}

At(c, op, pc) == slot[c].op = op /\ slot[c].pc = pc
To(c, pc) == slot' = [slot EXCEPT ![c].pc = pc]
Begin(c, op, pc, view) ==
  slot[c] = Idle /\ slot' = [slot EXCEPT ![c] = [Idle EXCEPT !.op = op, !.pc = pc, !.view = view]]
End(c) == slot' = [slot EXCEPT ![c] = Idle]

-----------------------------------------------------------------------------
(* The statements of the repository and the keys in Redis                  *)

IncrementFailedLogin == row.attempts < MaxAttempts /\ row' = [row EXCEPT !.attempts = @ + 1]
ResetFailedLogin == row' = [row EXCEPT !.attempts = 0, !.locked = FALSE]
SetLockedUntil == row' = [row EXCEPT !.locked = TRUE]
UpdateMFA(enabled, secret) == row' = [row EXCEPT !.enabled = enabled, !.secret = secret]

(* The rehash of an old password: UpdateUser rewrites name, e-mail and     *)
(* avatar, not the hash, and drops the cached copy.                        *)
UpdateUser == IF OldHash THEN cache' \in {None, cache} ELSE UNCHANGED cache

(* StoreRefreshTokenV2 of a fresh token.                                   *)
StoreRefreshToken(t) == refresh[t] = "unissued" /\ refresh' = [refresh EXCEPT ![t] = "live"]
StoreChallenge(h) == challenge[h] = "unissued" /\ challenge' = [challenge EXCEPT ![h] = "live"]

-----------------------------------------------------------------------------
(* GetUserByID                                                             *)

(* Only a login and a check of a code go by what they load.                *)
Loaded(c, view) ==
  IF slot[c].op \in {"me", "refresh"} THEN End(c)
  ELSE slot' = [slot EXCEPT ![c].pc = "loaded",
                            ![c].view = IF slot[c].op = "setup" THEN NoView ELSE view]

CacheHit(c) ==
  /\ slot[c].pc = "look" /\ cache # None
  /\ Loaded(c, cache)
  /\ UNCHANGED <<row, cache, shown, refresh, challenge, history>>

CacheMiss(c) ==
  /\ slot[c].pc = "look" /\ cache = None
  /\ slot' = [slot EXCEPT ![c].pc = "fill", ![c].view = ViewOf(row)]
  /\ UNCHANGED <<row, cache, shown, refresh, challenge, history>>

(* SET, whose error is ignored: what was read a step ago may be outdated.  *)
Fill(c) ==
  /\ slot[c].pc = "fill"
  /\ cache' \in {Stored(slot[c].view), cache}
  /\ Loaded(c, slot[c].view)
  /\ UNCHANGED <<row, shown, refresh, challenge, history>>

-----------------------------------------------------------------------------
(* Login                                                                   *)

(* Before a read of the row that finds it locked nothing has changed.      *)
LoginRight(c) ==
  /\ ~row.locked
  /\ Begin(c, "login", IF row.attempts > 0 THEN "reset" ELSE "admit", ViewOf(row))
  /\ UNCHANGED <<row, cache, shown, refresh, challenge, history>>

LoginWrong(c) ==
  /\ ~row.locked /\ row.attempts < MaxAttempts
  /\ Begin(c, "login", "count", NoView)
  /\ UNCHANGED <<row, cache, shown, refresh, challenge, history>>

(* IncrementFailedLogin, whose error is ignored.                           *)
Count(c) ==
  /\ At(c, "login", "count")
  /\ \/ /\ IncrementFailedLogin
        /\ reached' = (reached \/ row.attempts + 1 >= Threshold)
     \/ UNCHANGED <<row, reached>>
  /\ To(c, "look")
  /\ UNCHANGED <<cache, shown, refresh, challenge, parent, proved, answered>>

(* The count it goes by is the cache's if there is one.                    *)
Judge(c) ==
  /\ At(c, "login", "loaded")
  /\ IF slot[c].view.attempts >= Threshold THEN To(c, "lock") ELSE End(c)
  /\ UNCHANGED <<row, cache, shown, refresh, challenge, history>>

LockAccount(c) ==
  /\ At(c, "login", "lock")
  /\ SetLockedUntil
  /\ End(c)
  /\ UNCHANGED <<cache, shown, refresh, challenge, history>>

(* ResetFailedLogin, whose error is ignored; it lifts a lock, too.         *)
Reset(c) ==
  /\ At(c, "login", "reset")
  /\ ResetFailedLogin \/ UNCHANGED row
  /\ To(c, "admit")
  /\ UNCHANGED <<cache, shown, refresh, challenge, history>>

(* By the MFA flag of the row read at first, a login ends in a challenge   *)
(* or in a session.                                                        *)
Admit(c) ==
  /\ At(c, "login", "admit")
  /\ UpdateUser
  /\ IF slot[c].view.enabled
     THEN (\E h \in Challenges : StoreChallenge(h)) /\ UNCHANGED refresh
     ELSE (\E t \in Tokens : StoreRefreshToken(t)) /\ UNCHANGED challenge
  /\ End(c)
  /\ UNCHANGED <<row, shown, history>>

-----------------------------------------------------------------------------
(* Two factors                                                             *)

(* SetupMFA loads the account, then replaces secret and flag.              *)
Setup(c) ==
  /\ Begin(c, "setup", "look", NoView)
  /\ UNCHANGED <<row, cache, shown, refresh, challenge, history>>

(* UpdateMFA, and the answer with the secret.                              *)
Replace(c) ==
  /\ At(c, "setup", "loaded")
  /\ \E s \in Secrets \ ({row.secret} \cup shown) :
       /\ UpdateMFA(FALSE, s)
       /\ shown' = shown \cup {s}
  /\ End(c)
  /\ UNCHANGED <<cache, refresh, challenge, history>>

(* PreAuthMFAHandler.Verify finds the challenge of its own device.         *)
Open(c) ==
  /\ slot[c] = Idle
  /\ \E h \in Challenges :
       /\ challenge[h] = "live"
       /\ slot' = [slot EXCEPT ![c] = [Idle EXCEPT !.op = "verify", !.pc = "look", !.item = h,
                                                   !.late = h \in answered]]
  /\ UNCHANGED <<row, cache, shown, refresh, challenge, history>>

(* IdentityHandler.VerifyMFA of a user who is logged in.                   *)
Confirm(c) ==
  /\ Begin(c, "confirm", "look", NoView)
  /\ UNCHANGED <<row, cache, shown, refresh, challenge, history>>

(* VerifyMFA: the code is of the secret that was loaded, or it is wrong.   *)
(* A copy from Redis has none, nor has an account before SetupMFA; Validate*)
(* then goes by the empty secret, for which there are valid codes, too.    *)
Check(c) ==
  /\ slot[c].op \in {"verify", "confirm"} /\ slot[c].pc = "loaded"
  /\ LET v == slot[c].view
     IN  \/ /\ v.secret \in shown \cup {None}
            /\ proved' = proved \cup {v.secret}
            /\ IF ~v.enabled THEN To(c, "enable")
               ELSE IF slot[c].op = "verify" THEN To(c, "spend") ELSE End(c)
         \/ End(c) /\ UNCHANGED proved
  /\ UNCHANGED <<row, cache, shown, refresh, challenge, parent, reached, answered>>

(* UpdateMFA writes back the secret that was loaded, the empty one as NULL.*)
Enable(c) ==
  /\ slot[c].pc = "enable"
  /\ UpdateMFA(TRUE, slot[c].view.secret)
  /\ IF slot[c].op = "verify" THEN To(c, "spend") ELSE End(c)
  /\ UNCHANGED <<cache, shown, refresh, challenge, history>>

(* Mutant: the challenge is left to its TTL.                               *)
SpendLater(c) ==
  /\ At(c, "verify", "spend")
  /\ To(c, "grant")
  /\ UNCHANGED <<row, cache, shown, refresh, challenge, history>>

(* DEL, without a look at the number of keys it deleted.                   *)
Spend(c) ==
  /\ At(c, "verify", "spend")
  /\ challenge' = [challenge EXCEPT ![slot[c].item] = "gone"]
  /\ To(c, "grant")
  /\ UNCHANGED <<row, cache, shown, refresh, history>>

(* The refresh token, and ExportData for the answer.                       *)
Grant(c) ==
  /\ At(c, "verify", "grant")
  /\ \E t \in Tokens : StoreRefreshToken(t)
  /\ answered' = answered \cup {slot[c].item}
  /\ slot' = [slot EXCEPT ![c] = [Idle EXCEPT !.op = "me", !.pc = "look"]]
  /\ UNCHANGED <<row, cache, shown, challenge, parent, reached, proved>>

-----------------------------------------------------------------------------
(* Refresh, /me and presence                                               *)

(* One script finds the token under either key, deletes it and stores the  *)
(* new one.                                                                *)
RotateRefreshToken(t, n) ==
  /\ refresh[t] = "live" /\ refresh[n] = "unissued"
  /\ refresh' = [refresh EXCEPT ![t] = "spent", ![n] = "live"]
  /\ parent' = [parent EXCEPT ![n] = t]

(* The account is loaded afterwards; if that fails, nobody gets the token. *)
Refresh(c) ==
  /\ slot[c] = Idle
  /\ \E t, n \in Tokens : RotateRefreshToken(t, n)
  /\ slot' = [slot EXCEPT ![c] = [Idle EXCEPT !.op = "refresh", !.pc = "look"]]
  /\ UNCHANGED <<row, cache, shown, challenge, reached, proved, answered>>

Me(c) ==
  /\ Begin(c, "me", "look", NoView)
  /\ UNCHANGED <<row, cache, shown, refresh, challenge, history>>

(* UpdateOnlineStatus and SetProfileLock write tables of their own, which  *)
(* every load reads afresh, and drop the copy.                             *)
DropCopy ==
  /\ cache # None /\ cache' = None
  /\ UNCHANGED <<row, shown, refresh, challenge, slot, history>>

(* A store answers an error that is not ignored, or the process dies.      *)
Fail(c) ==
  /\ slot[c] # Idle /\ End(c)
  /\ UNCHANGED <<row, cache, shown, refresh, challenge, history>>

(* A lock (15 minutes) and a challenge (5 minutes) end; the end of the     *)
(* cached copy (an hour) looks like DropCopy, and the 30 days of a refresh *)
(* token are beyond the model.                                             *)
TimePasses ==
  /\ \/ /\ row.locked /\ row' = [row EXCEPT !.locked = FALSE]
        /\ UNCHANGED challenge
     \/ /\ \E h \in Challenges : challenge[h] = "live" /\ challenge' = [challenge EXCEPT ![h] = "gone"]
        /\ UNCHANGED row
  /\ UNCHANGED <<cache, shown, refresh, slot, history>>

ServeAccount(c) ==
  \/ CacheHit(c) \/ CacheMiss(c) \/ Fill(c)
  \/ LoginRight(c) \/ LoginWrong(c) \/ Count(c) \/ Judge(c) \/ LockAccount(c) \/ Reset(c) \/ Admit(c)
  \/ Setup(c) \/ Replace(c) \/ Open(c) \/ Confirm(c) \/ Check(c) \/ Enable(c) \/ Spend(c) \/ Grant(c)
  \/ Refresh(c) \/ Me(c) \/ Fail(c)

AccountsNext == (\E c \in Calls : ServeAccount(c)) \/ DropCopy \/ TimePasses

AccountsSpec == AccountsInit /\ [][AccountsNext]_accountsVars

-----------------------------------------------------------------------------
(* Correctness                                                             *)

AccountsTypeOK ==
  /\ row \in Rows /\ cache \in Views \cup {None} /\ shown \subseteq Secrets
  /\ refresh \in [Tokens -> {"unissued", "live", "spent"}]
  /\ challenge \in [Challenges -> {"unissued", "live", "gone"}]
  /\ slot \in [Calls -> Slots]
  /\ parent \in [Tokens -> Tokens \cup {None}]
  /\ reached \in BOOLEAN /\ proved \subseteq Secrets \cup {None} /\ answered \subseteq Challenges

(* However stale the count it goes by, a lock rests on a count that did    *)
(* come to the threshold, be it before a reset: the cache never makes one  *)
(* up.                                                                     *)
LockIsEarned == row.locked => reached

(* Two-factor login is on only with what a valid code was given for,       *)
(* whatever SetupMFA did between check and write.  That may be no secret   *)
(* at all, as EnabledIsShown denies.                                       *)
EnabledIsProved == row.enabled => row.secret \in proved

(* Redis is disposable, PostgreSQL has the authority: what the copy leaves *)
(* out is not lost to the row.  Once SetupMFA has answered, a second       *)
(* factor that is on has a secret the user was shown.                      *)
EnabledIsShown == row.enabled /\ shown # {} => row.secret \in shown

(* What a request decides on a stale row is still earned.                  *)
StaleIsHarmless == LockIsEarned /\ EnabledIsProved

(* A refresh token is exchanged once, and never honoured again afterwards, *)
(* by however many clients at once.                                        *)
RotatedOnce ==
  \A t \in Tokens : parent[t] # None =>
    /\ refresh[parent[t]] = "spent"
    /\ \A u \in Tokens : parent[u] = parent[t] => u = t

(* Once a login was answered for a challenge, no verification that begins  *)
(* later comes to a session with it.                                       *)
NoLateGrant == \A c \in Calls : slot[c].pc = "grant" => ~slot[c].late

SessionsAreSingle == RotatedOnce /\ NoLateGrant

(* Both, of one account, whatever its requests interleave with.            *)
AccountHolds == StaleIsHarmless /\ SessionsAreSingle
=============================================================================
