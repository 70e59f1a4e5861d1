--------------------------- MODULE TelegramLogin ---------------------------
(***************************************************************************)
(* Signing in to Telegram and out again: TelegramAuthService               *)
(* (apps/server/src/telegram/telegram-auth.service.ts) and the client of   *)
(* GramJsGateway (gramjs.gateway.ts), under concurrent requests, failing   *)
(* calls and restarts.                                                     *)
(*                                                                         *)
(* An action is the code between two awaits.  A session is the key of a    *)
(* client; a new client has a new one, a restored client the stored one.   *)
(* Which codes and passwords are right is Telegram's to say: every call    *)
(* may be refused.                                                         *)
(***************************************************************************)
EXTENDS FiniteSets

CONSTANTS
  Session,      \* bound: the sessions there will ever be
  Challenge,    \* bound: the challenges there will ever be
  Call,         \* concurrent requests
  Null

ASSUME LoginAssumption == Null \notin Session \union Challenge

VARIABLES
  signedIn,     \* Telegram: the sessions that are signed in
  stored,       \* PostgreSQL: the session of the account, or Null
  up,           \* the process runs
  client,       \* the session of the gateway's client, or Null
  authorized,
  challenge,    \* this.challenge, or Null
  stage,        \* Challenge -> the stage of that object
  made,         \* sessions that have been created
  pc,           \* Call -> what it awaits
  key,          \* Call -> the session it awaits an answer for, or saves
  held,         \* Call -> the challenge it verifies
  asked,        \* history: challenges whose code made Telegram ask for a password
  mixed,        \* history: a verification and a sendCode or logOut have overlapped
                \*   since all requests were idle
  last          \* history: what the last verification or logOut left, unless mixed

authVars  == <<authorized, challenge, stage>>
procVars  == <<up, client, authVars>>
callVars  == <<pc, key, held>>
histVars  == <<asked, mixed, last>>
vars == <<signedIn, stored, procVars, made, callVars, histVars>>

Sending    == {"dropping", "connecting", "reconnecting", "sending"}
Verifying  == {"signingIn", "checking", "persisting", "persisted"}
LoggingOut == {"loggingOut", "leaving", "leavingAgain", "clearing"}

Busy(stages) == {c \in Call : pc[c] \in stages}

Goto(c, stop) == pc' = [pc EXCEPT ![c] = stop]

(* The answer to c's request, with what its code leaves behind. *)
Return(c) == Goto(c, "idle") /\ UNCHANGED <<key, held>>

(* A request begins while others are at `stages` that it must not overlap. *)
Overlap(stages) == mixed' = (Busy({"idle"}) # Call /\ (mixed \/ Busy(stages) # {}))

-----------------------------------------------------------------------------
(* The gateway's requireClient, 289-294.  Mutant: without the exception. *)
RequireClientNot == TRUE
RequireClient == client # Null

(* disconnect, 251-258, does not sign out.  Mutant: it does. *)
DisconnectedSignsOut == signedIn' = signedIn \ {client}
Disconnected == UNCHANGED signedIn

(* replaceClient, 298-305: the new client, whose connection is awaited. *)
Connect(c, stop) ==
  /\ \E k \in Session \ made :
       /\ client' = k
       /\ made' = made \union {k}
  /\ Goto(c, stop)

-----------------------------------------------------------------------------
(* sendCode(), 99-121.  The gateway's resetSession disconnects the client  *)
(* there is.                                                               *)
SendEnter(c) ==
  /\ up /\ pc[c] = "idle"
  /\ IF client = Null THEN Connect(c, "connecting")
                      ELSE Goto(c, "dropping") /\ UNCHANGED <<client, made>>
  /\ Disconnected
  /\ Overlap(Verifying)
  /\ last' = IF mixed' THEN "unknown" ELSE last
  /\ UNCHANGED <<stored, up, authVars, key, held, asked>>

(* Gateway 254 and 298: whatever the client is by now, it is replaced. *)
SendDropped(c) ==
  /\ pc[c] = "dropping"
  /\ Connect(c, "connecting")
  /\ UNCHANGED <<signedIn, stored, up, authVars, key, held, histVars>>

(* 103, gateway 101 and 282-287: ensureClient, as another request may have *)
(* dropped the client that has just connected.                             *)
SendConnected(c) ==
  /\ pc[c] \in {"connecting", "reconnecting"}
  /\ IF client # Null THEN Goto(c, "sending") /\ UNCHANGED <<client, made>>
                      ELSE pc[c] = "connecting" /\ Connect(c, "reconnecting")
  /\ UNCHANGED <<signedIn, stored, up, authVars, key, held, histVars>>

(* 104-117: the new challenge takes the place of any other. *)
SendCode(c) ==
  /\ pc[c] = "sending"
  /\ \E h \in Challenge :
       /\ stage[h] = "absent"
       /\ stage' = [stage EXCEPT ![h] = "code"]
       /\ challenge' = h
  /\ Return(c)
  /\ UNCHANGED <<signedIn, stored, up, client, authorized, made, histVars>>

-----------------------------------------------------------------------------
(* verifyCode(), 123-141, and verifyPassword(), 143-154.                   *)

(* requireChallenge, 210-216: ten minutes have passed. *)
Expire ==
  /\ up /\ challenge # Null
  /\ challenge' = Null
  /\ UNCHANGED <<signedIn, stored, up, client, authorized, stage, made, callVars, histVars>>

(* The challenge of the request is the current one, at the stage `at`. *)
VerifyEnter(c, at, stop) ==
  /\ up /\ pc[c] = "idle"
  /\ challenge # Null /\ stage[challenge] = at
  /\ RequireClient
  /\ Goto(c, stop)
  /\ key' = [key EXCEPT ![c] = client]
  /\ held' = [held EXCEPT ![c] = challenge]
  /\ Overlap(Sending \union LoggingOut)
  /\ last' = "unknown"
  /\ UNCHANGED <<signedIn, stored, procVars, made, asked>>

VerifyCode(c)     == VerifyEnter(c, "code", "signingIn")
VerifyPassword(c) == VerifyEnter(c, "password", "checking")

(* Mutant of Staged: the stage of the current challenge. *)
StagedCurrent(h) ==
  stage' = [g \in Challenge |-> IF g = challenge THEN "password" ELSE stage[g]]
Staged(h) == stage' = [stage EXCEPT ![h] = "password"]

(* 131-134: Telegram asks for the password.  The object that was verified  *)
(* changes, which may no longer be this.challenge.                         *)
PasswordNeeded(c) ==
  /\ pc[c] = "signingIn"
  /\ Staged(held[c])
  /\ asked' = asked \union {held[c]}
  /\ Return(c)
  /\ UNCHANGED <<signedIn, stored, up, client, authorized, challenge, made, mixed, last>>

(* 135 and 146, 229-230: Telegram has signed the session in; the session   *)
(* of the client there is now is sent to the database.                     *)
SignedIn(c) ==
  /\ pc[c] \in {"signingIn", "checking"}
  /\ RequireClient
  /\ signedIn' = signedIn \union {key[c]}
  /\ key' = [key EXCEPT ![c] = client]
  /\ Goto(c, "persisting")
  /\ UNCHANGED <<stored, procVars, made, held, histVars>>

(* 230-253: the upsert commits. *)
Persist(c) ==
  /\ pc[c] = "persisting"
  /\ stored' = key[c]
  /\ Goto(c, "persisted")
  /\ UNCHANGED <<signedIn, procVars, made, key, held, histVars>>

(* 254 and 136 or 149. *)
Authorize(c) ==
  /\ pc[c] = "persisted"
  /\ authorized' = TRUE
  /\ challenge' = Null
  /\ last' = IF mixed THEN "unknown" ELSE "in"
  /\ Return(c)
  /\ UNCHANGED <<signedIn, stored, up, client, stage, made, asked, mixed>>

-----------------------------------------------------------------------------
(* logOut(), 156-180. *)

(* The finally block, 162-165.  Mutant: authorized is left to the next     *)
(* start to find out.                                                      *)
ClearStored(c) ==
  /\ challenge' = Null
  /\ Goto(c, "clearing")
  /\ UNCHANGED authorized
Clear(c) ==
  /\ authorized' = FALSE
  /\ challenge' = Null
  /\ Goto(c, "clearing")

(* Gateway 246 or 253: the client there is, if any, is to answer first. *)
Await(c, stop) ==
  IF client = Null THEN Clear(c) ELSE Goto(c, stop) /\ UNCHANGED <<authorized, challenge>>

LogOutEnter(c) ==
  /\ up /\ pc[c] = "idle"
  /\ key' = [key EXCEPT ![c] = client]
  /\ Await(c, "loggingOut")
  /\ Overlap(Verifying)
  /\ last' = "unknown"
  /\ UNCHANGED <<signedIn, stored, up, client, stage, made, held, asked>>

(* Gateway 248: then the client is disconnected. *)
LoggedOut(c) ==
  /\ pc[c] = "loggingOut"
  /\ signedIn' = signedIn \ {key[c]}
  /\ Await(c, "leaving")
  /\ UNCHANGED <<stored, up, client, stage, made, key, held, histVars>>

(* 159-161: the catch block disconnects as well. *)
LogOutFails(c) ==
  /\ pc[c] \in {"loggingOut", "leaving"}
  /\ pc[c] = "leaving" => UNCHANGED signedIn
  /\ signedIn' \in {signedIn, signedIn \ {key[c]}}
  /\ Await(c, "leavingAgain")
  /\ UNCHANGED <<stored, up, client, stage, made, key, held, histVars>>

(* Gateway 253-254: the client is dropped, or the disconnection in the     *)
(* catch block fails.                                                      *)
Left(c) ==
  /\ \/ pc[c] \in {"leaving", "leavingAgain"} /\ client' = Null
     \/ pc[c] = "leavingAgain" /\ UNCHANGED client
  /\ Clear(c)
  /\ UNCHANGED <<signedIn, stored, up, stage, made, key, held, histVars>>

(* 165-178: the upsert. *)
LogOut(c) ==
  /\ pc[c] = "clearing"
  /\ stored' = Null
  /\ last' = IF mixed THEN "unknown" ELSE "out"
  /\ Return(c)
  /\ UNCHANGED <<signedIn, procVars, made, asked, mixed>>

-----------------------------------------------------------------------------
(* A call of sendCode or of a verification fails, and so does the request. *)
(* It may have taken effect first.                                         *)
CallFails(c) ==
  /\ pc[c] \in Sending \union Verifying
  /\ pc[c] \in {"signingIn", "checking"} \/ UNCHANGED signedIn
  /\ signedIn' \in {signedIn, signedIn \union {key[c]}}
  /\ Return(c)
  /\ UNCHANGED <<stored, procVars, made, histVars>>

(* The upsert at the end of logOut fails, or its answer is lost. *)
ClearFails(c) ==
  /\ pc[c] = "clearing"
  /\ stored' \in {stored, Null}
  /\ Return(c)
  /\ UNCHANGED <<signedIn, procVars, made, histVars>>

Crash ==
  /\ up
  /\ up' = FALSE
  /\ client' = Null
  /\ authorized' = FALSE
  /\ challenge' = Null
  /\ pc' = [c \in Call |-> "idle"]
  /\ UNCHANGED <<signedIn, stored, stage, made, key, held, histVars>>

(* onModuleInit, 45-74, before the server listens: the stored session is   *)
(* restored if Telegram can be reached and still knows it.                 *)
Boot ==
  /\ ~up
  /\ up' = TRUE
  /\ client' \in {stored, Null}
  /\ authorized' \in BOOLEAN
  /\ authorized' => client' \in signedIn
  /\ UNCHANGED <<signedIn, stored, challenge, stage, made, callVars, histVars>>

-----------------------------------------------------------------------------
Init ==
  /\ signedIn = {}
  /\ stored = Null
  /\ up = FALSE
  /\ client = Null
  /\ authorized = FALSE
  /\ challenge = Null
  /\ stage = [h \in Challenge |-> "absent"]
  /\ made = {}
  /\ pc = [c \in Call |-> "idle"]
  /\ key = [c \in Call |-> Null]
  /\ held = [c \in Call |-> Null]
  /\ asked = {}
  /\ mixed = FALSE
  /\ last = "unknown"

Next ==
  \/ \E c \in Call :
       \/ SendEnter(c) \/ SendDropped(c) \/ SendConnected(c) \/ SendCode(c)
       \/ VerifyCode(c) \/ VerifyPassword(c) \/ PasswordNeeded(c) \/ SignedIn(c)
       \/ Persist(c) \/ Authorize(c)
       \/ LogOutEnter(c) \/ LoggedOut(c) \/ LogOutFails(c) \/ Left(c)
       \/ LogOut(c)
       \/ CallFails(c) \/ ClearFails(c)
  \/ Expire \/ Crash \/ Boot

Spec == Init /\ [][Next]_vars

-----------------------------------------------------------------------------
TypeOK ==
  /\ signedIn \subseteq made /\ made \subseteq Session
  /\ stored \in made \union {Null}
  /\ client \in made \union {Null}
  /\ up \in BOOLEAN /\ authorized \in BOOLEAN
  /\ challenge \in Challenge \union {Null}
  /\ stage \in [Challenge -> {"absent", "code", "password"}]
  /\ challenge # Null => stage[challenge] # "absent"
  /\ pc \in [Call -> {"idle"} \union Sending \union Verifying \union LoggingOut]
  /\ key \in [Call -> made \union {Null}]
  /\ held \in [Call -> Challenge \union {Null}]
  /\ asked \subseteq Challenge
  /\ mixed \in BOOLEAN
  /\ last \in {"unknown", "in", "out"}

(* The account must be verified again after a logout (telegram-page.tsx    *)
(* of the admin UI, line 564): once a logOut that no verification overlaps *)
(* has ended, nobody is signed in and no restart signs anybody in,         *)
(* whatever failed on the way and whichever clients were replaced.         *)
LogoutIsFinal == last = "out" => stored = Null /\ ~authorized

(* A login survives restarts: once a verification that no sendCode or      *)
(* logOut overlaps has ended, the stored session is one that Telegram has  *)
(* signed in, and neither new codes nor failures take it away.             *)
LoginIsKept == last = "in" => stored \in signedIn

(* A password is only ever checked for a challenge whose own code made     *)
(* Telegram ask for it, although codes are sent and verified concurrently. *)
PasswordFollowsCode ==
  \A c \in Call : pc[c] = "checking" => held[c] \in asked
=============================================================================
