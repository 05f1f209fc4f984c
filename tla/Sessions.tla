------------------------------- MODULE Sessions -------------------------------
(***************************************************************************)
(* Registration and login of backend/internal/modules/identity as far as   *)
(* sessions, devices and access tokens go (what happens to the row of one  *)
(* account, its lock, its second factor and its refresh tokens is in       *)
(* Accounts).  A call takes one statement, one script in Redis or one look *)
(* at the registry of devices per step.  BuildApp gives the repository no  *)
(* auditor, so that a registration panics once its row is there.           *)
(***************************************************************************)
EXTENDS Naturals, Sequences, FiniteSets

CONSTANTS
  Names, Places,    \* who, and from which address and agent
  Address,          \* of each place
  Entries, Entry,   \* the calls: op, name, from, with (the call whose tokens it bears)
  KnownAtFirst,     \* accounts there before
  LoginMax,         \* logins let through in one window: 10
  MaxEntries, MaxAtOnce  \* bounds: the calls made in one behaviour, and at a time

EntryOps == {"register", "login", "me", "refresh"}

ASSUME SessionsAssumption ==
  /\ \A c \in Entries :
       /\ Entry[c].op \in EntryOps /\ Entry[c].name \in Names
       /\ Entry[c].from \in Places /\ Entry[c].with \in Entries
       /\ Entry[c].op \in {"me", "refresh"} => Entry[c].name = Entry[Entry[c].with].name
  /\ KnownAtFirst \subseteq Names /\ {LoginMax, MaxEntries, MaxAtOnce} \subseteq Nat \ {0}

VARIABLES
  audited,       \* whether the repository has an auditor
  known,         \* rows of users
  rows,          \* rows of sessions, oldest first; nobody deactivates one
  aged,          \* how many of them were last active an hour ago
  devices,       \* deviceRegistry of the process
  tries,         \* of each name, the logins counted in the running window
  alerts,        \* security events sent to Redis; an error is ignored
  tokens,        \* access tokens: the call they were made in, whose, and for which device
  renewable,     \* calls whose refresh token has not been exchanged yet
  point, risk,   \* where each call is (refused: by whatever error), and its risk
                 \* so far, in hundredths
  (* History *)
  before,        \* of each login, how many session rows there were when it came
  blind          \* logins that could not read the sessions

sessionsVars == <<audited, known, rows, aged, devices, tries, alerts, tokens, renewable, point, risk, before, blind>>

Name(c) == Entry[c].name
From(c) == Entry[c].from

(* The registry and the tokens have the hash of an address and an agent,   *)
(* the look for a known device the text itself.                            *)
GenerateFingerprint(place) == <<"hash", place>>
PlainFingerprint(place) == <<"text", place>>

SessionsInit ==
  /\ audited \in BOOLEAN /\ known = KnownAtFirst
  /\ rows = <<>> /\ aged = 0 /\ alerts = {} /\ tokens = {} /\ renewable = {}
  /\ devices = [u \in Names |-> <<>>] /\ tries = [u \in Names |-> 0]
  /\ point = [c \in Entries |-> "idle"] /\ risk = [c \in Entries |-> 0]
  /\ before = [c \in Entries |-> 0] /\ blind = {}

Steps(c, l) == point' = [point EXCEPT ![c] = l]
Ends == {"refused", "risky", "done"}
Enters(c, op) ==
  /\ point[c] = "idle" /\ Entry[c].op = op
  /\ Cardinality({d \in Entries : point[d] # "idle"}) < MaxEntries
  /\ Cardinality({d \in Entries : point[d] \notin Ends \cup {"idle"}}) < MaxAtOnce

(* A store that does not answer, where that is an answer of the call.      *)
NoStore(c) ==
  /\ point[c] \in {"insert", "find", "open", "grant", "load"} /\ Steps(c, "refused")
  /\ UNCHANGED <<audited, known, rows, aged, devices, tries, alerts, tokens, renewable, risk, before, blind>>

-----------------------------------------------------------------------------
(* Registration                                                            *)

Register(c) ==
  /\ Enters(c, "register") /\ \E sound \in BOOLEAN : Steps(c, IF sound THEN "insert" ELSE "refused")
  /\ UNCHANGED <<audited, known, rows, aged, devices, tries, alerts, tokens, renewable, risk, before, blind>>

(* Name and e-mail are unique.                                             *)
InsertUser(u) == u \notin known /\ known' = known \cup {u}

CreateUser(c) ==
  /\ point[c] = "insert"
  /\ \/ InsertUser(Name(c)) /\ Steps(c, IF audited THEN "device" ELSE "refused")
     \/ Name(c) \in known /\ Steps(c, "refused") /\ UNCHANGED known
  /\ UNCHANGED <<audited, rows, aged, devices, tries, alerts, tokens, renewable, risk, before, blind>>

(* The registry keeps ten, of which a single registration fills one.       *)
RegisterDevice(c) ==
  /\ point[c] = "device" /\ Steps(c, "grant")
  /\ devices' = [devices EXCEPT ![Name(c)] = Append(@, GenerateFingerprint(From(c)))]
  /\ UNCHANGED <<audited, known, rows, aged, tries, alerts, tokens, renewable, risk, before, blind>>

-----------------------------------------------------------------------------
(* Login                                                                   *)

(* INCR, whose first sets the expiry.                                      *)
RateLimitCheck(u) == tries' = [tries EXCEPT ![u] = @ + 1]

Login(c) ==
  /\ Enters(c, "login") /\ RateLimitCheck(Name(c))
  /\ Steps(c, IF tries[Name(c)] + 1 <= LoginMax THEN "find" ELSE "refused")
  /\ before' = [before EXCEPT ![c] = Len(rows)]
  /\ UNCHANGED <<audited, known, rows, aged, devices, alerts, tokens, renewable, risk, blind>>

(* The lock, the password and the second factor are in Accounts.           *)
GetUserByIdentifier(c) ==
  /\ point[c] = "find"
  /\ \E right \in BOOLEAN : Steps(c, IF Name(c) \in known /\ right THEN "devices" ELSE "refused")
  /\ UNCHANGED <<audited, known, rows, aged, devices, tries, alerts, tokens, renewable, risk, before, blind>>

RecordAudit(c, event) == alerts' = alerts \cup {<<event, c>>}
Seen(fingerprint, registered) == \E i \in DOMAIN registered : registered[i] = fingerprint

AssessDevice(c) ==
  /\ point[c] = "devices" /\ Steps(c, "sessions")
  /\ LET mine == devices[Name(c)]
     IN  IF mine # <<>> /\ ~Seen(PlainFingerprint(From(c)), mine)
         THEN risk' = [risk EXCEPT ![c] = 30] /\ RecordAudit(c, "NEW_DEVICE_LOGIN")
         ELSE UNCHANGED <<risk, alerts>>
  /\ UNCHANGED <<audited, known, rows, aged, devices, tries, tokens, renewable, before, blind>>

GetUserSessions(u) == {i \in DOMAIN rows : rows[i].user = u}

LastSession(mine) == CHOOSE i \in mine : \A j \in mine : j <= i

Travelled(c) ==
  LET mine == GetUserSessions(Name(c))
  IN  mine # {} /\ LET last == LastSession(mine) IN Address[rows[last].from] # Address[From(c)] /\ last > aged

(* Mutant: the bound itself is too high a risk.                            *)
HighRiskAtBound(r) == r >= 80

(* Both signs together come to the bound and do not exceed it.             *)
HighRisk(r) == r > 80

JudgeRisk(c, r) ==
  /\ Steps(c, IF HighRisk(r) THEN "risky" ELSE "open") /\ risk' = [risk EXCEPT ![c] = 0]

(* Sessions that cannot be read are no risk.                               *)
AssessRisk(c) ==
  /\ point[c] = "sessions"
  /\ \/ /\ Travelled(c) /\ RecordAudit(c, "IMPOSSIBLE_TRAVEL") /\ JudgeRisk(c, risk[c] + 50)
        /\ UNCHANGED blind
     \/ ~Travelled(c) /\ JudgeRisk(c, risk[c]) /\ UNCHANGED <<alerts, blind>>
     \/ blind' = blind \cup {c} /\ JudgeRisk(c, risk[c]) /\ UNCHANGED alerts
  /\ UNCHANGED <<audited, known, rows, aged, devices, tries, tokens, renewable, before>>

InsertSession(r) == rows' = Append(rows, r)
CreateSession(c) ==
  /\ point[c] = "open" /\ Steps(c, "grant")
  /\ InsertSession([user |-> Name(c), from |-> From(c), by |-> c])
  /\ UNCHANGED <<audited, known, aged, devices, tries, alerts, tokens, renewable, risk, before, blind>>

-----------------------------------------------------------------------------
(* Tokens                                                                  *)

GenerateToken(c) == tokens' = tokens \cup {[by |-> c, user |-> Name(c), print |-> GenerateFingerprint(From(c))]}

(* The refresh token is stored, and both are answered.                     *)
GrantTokens(c) ==
  /\ point[c] = "grant" /\ GenerateToken(c) /\ Steps(c, "done")
  /\ renewable' = renewable \cup {c}
  /\ UNCHANGED <<audited, known, rows, aged, devices, tries, alerts, risk, before, blind>>

(* The exchange itself is in Accounts.  The new token is for the place     *)
(* that asks; no session row is looked at, nor written.                    *)
RefreshToken(c) ==
  /\ Enters(c, "refresh")
  /\ LET spent == renewable \cap {Entry[c].with}
     IN  Steps(c, IF spent = {} THEN "refused" ELSE "load") /\ renewable' = renewable \ spent
  /\ UNCHANGED <<audited, known, rows, aged, devices, tries, alerts, tokens, risk, before, blind>>

LoadRefreshed(c) ==
  /\ point[c] = "load" /\ Entry[c].op = "refresh" /\ Steps(c, "grant")
  /\ UNCHANGED <<audited, known, rows, aged, devices, tries, alerts, tokens, renewable, risk, before, blind>>

(* Whoever bears a token from elsewhere is refused.                        *)
AuthMiddleware(c) ==
  \E t \in tokens : t.by = Entry[c].with /\ t.print = GenerateFingerprint(From(c))

ShowMe(c) ==
  /\ Enters(c, "me") /\ Steps(c, IF AuthMiddleware(c) THEN "load" ELSE "refused")
  /\ UNCHANGED <<audited, known, rows, aged, devices, tries, alerts, tokens, renewable, risk, before, blind>>

(* The sessions are read, but not answered.                                *)
ExportData(c) ==
  /\ point[c] = "load" /\ Entry[c].op = "me" /\ Steps(c, "done")
  /\ UNCHANGED <<audited, known, rows, aged, devices, tries, alerts, tokens, renewable, risk, before, blind>>

-----------------------------------------------------------------------------
(* A quarter of an hour, or more: the limiters' windows and the access     *)
(* tokens end, and some sessions may be an hour old.                       *)
QuarterPasses ==
  /\ tokens' = {} /\ tries' = [u \in Names |-> 0] /\ aged' \in aged..Len(rows)
  /\ UNCHANGED <<audited, known, rows, devices, alerts, renewable, point, risk, before, blind>>

(* The registry of devices is in memory, and calls are cut off.            *)
RestartProcess ==
  /\ devices' = [u \in Names |-> <<>>]
  /\ point' = [c \in Entries |-> IF point[c] \in Ends \cup {"idle"} THEN point[c] ELSE "refused"]
  /\ risk' = [c \in Entries |-> 0]
  /\ UNCHANGED <<audited, known, rows, aged, tries, alerts, tokens, renewable, before, blind>>

SessionsNext ==
  \/ \E c \in Entries :
       \/ NoStore(c) \/ Register(c) \/ CreateUser(c) \/ RegisterDevice(c)
       \/ Login(c) \/ GetUserByIdentifier(c) \/ AssessDevice(c) \/ AssessRisk(c)
       \/ CreateSession(c) \/ GrantTokens(c) \/ RefreshToken(c) \/ LoadRefreshed(c) \/ ShowMe(c) \/ ExportData(c)
  \/ QuarterPasses \/ RestartProcess

-----------------------------------------------------------------------------
(* Correctness                                                             *)

(* However many signs of risk come together, the right password is turned  *)
(* away only by the limiter or by a store that does not answer.            *)
RightIsAdmitted == \A c \in Entries : point[c] # "risky"

(* Of two sessions of a user that follow one another within the hour, from *)
(* different addresses, the second has been noted, if its login came after *)
(* the first was there and could read it.                                  *)
TravelIsSeen ==
  \A i, j \in DOMAIN rows :
    LET c == rows[j].by
    IN  (/\ rows[i].user = rows[j].user /\ Address[rows[i].from] # Address[rows[j].from]
         /\ aged < i /\ i <= before[c] /\ c \notin blind
         /\ ~\E k \in DOMAIN rows : i < k /\ k < j /\ rows[k].user = rows[j].user)
        => <<"IMPOSSIBLE_TRAVEL", c>> \in alerts

(* A login is answered with tokens once its session is a row, and whoever  *)
(* is granted anything is an account; a refresh token is exchanged once.   *)
Answered == {c \in Entries : point[c] = "done"}
Renewed == {c \in Answered : Entry[c].op = "refresh"}
GrantsRestOnRows ==
  /\ \A c \in Answered : Entry[c].op = "login" => \E i \in DOMAIN rows : rows[i].by = c
  /\ \A c \in Answered : Name(c) \in known
  /\ \A c, d \in Renewed : Entry[c].with = Entry[d].with => c = d

SessionsHold == RightIsAdmitted /\ TravelIsSeen /\ GrantsRestOnRows
=============================================================================
