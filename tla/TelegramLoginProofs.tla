------------------------ MODULE TelegramLoginProofs ------------------------
(***************************************************************************)
(* Theorems about TelegramLogin, for every value of its constants.         *)
(***************************************************************************)
EXTENDS TelegramLogin, TLAPS

Others == Sending \union LoggingOut

(* A process that is down serves nobody. *)
DownIdle ==
  ~up => /\ ~authorized /\ client = Null /\ challenge = Null
         /\ \A c \in Call : pc[c] = "idle"

(* A verification has a session to ask about, and a challenge. *)
AtWork ==
  \A c \in Call : pc[c] \in Verifying => key[c] \in made /\ held[c] \in Challenge

(* Unless they are mixed, verifications are under way alone. *)
NotMixed ==
  ~mixed => \A c, d \in Call : ~(pc[c] \in Verifying /\ pc[d] \in Others)

(* ... and all are about the client there is. *)
PureKeys ==
  ~mixed => \A c \in Call :
    /\ pc[c] \in Verifying => key[c] = client
    /\ pc[c] \in {"persisting", "persisted"} => key[c] \in signedIn
    /\ pc[c] = "persisted" => stored = key[c]

(* A logOut that is not mixed has signed out, and nobody signs in. *)
Cleared == ~mixed => \A c \in Call : pc[c] = "clearing" => ~authorized

OutQuiet ==
  last = "out" => /\ stored = Null /\ ~authorized
                  /\ \A c \in Call : pc[c] \notin Verifying

(* While the last login counts, no logOut is under way, and no mixed       *)
(* verification either.                                                    *)
InQuiet ==
  last = "in" =>
    /\ stored \in signedIn
    /\ \A c \in Call : pc[c] \notin LoggingOut /\ (pc[c] \in Verifying => ~mixed)

Asked ==
  /\ \A h \in Challenge : stage[h] = "password" => h \in asked
  /\ PasswordFollowsCode

LoginInv ==
  TypeOK /\ DownIdle /\ AtWork /\ NotMixed /\ PureKeys /\ Cleared /\ OutQuiet /\ InQuiet
  /\ Asked

-----------------------------------------------------------------------------
(* A request that leaves mixed false found all idle, or nothing mixed and  *)
(* nobody it must not overlap.                                             *)
LEMMA OverlapFacts ==
  ASSUME TypeOK, NEW stages, Overlap(stages)
  PROVE  /\ mixed' \in BOOLEAN
         /\ ~mixed' => \/ \A d \in Call : pc[d] = "idle"
                       \/ ~mixed /\ \A d \in Call : pc[d] \notin stages
<1>1. mixed' \in BOOLEAN
  BY DEF Overlap
<1>2. CASE Busy({"idle"}) = Call
  BY <1>1, <1>2 DEF Busy
<1>3. CASE Busy({"idle"}) # Call
  <2>1. mixed' = (mixed \/ Busy(stages) # {})
    BY <1>3 DEF Overlap, TypeOK
  <2>2. ~mixed' => ~mixed /\ Busy(stages) = {}
    BY <2>1
  <2> QED
    BY <1>1, <2>2 DEF Busy
<1> QED
  BY <1>2, <1>3

(* At the start nothing is there. *)
LEMMA InitLogin == Init => LoginInv
BY LoginAssumption
   DEF Init, LoginInv, TypeOK, DownIdle, AtWork, NotMixed, PureKeys, Cleared, OutQuiet, InQuiet,
       Asked, PasswordFollowsCode, Verifying, Sending, LoggingOut

-----------------------------------------------------------------------------
(* sendCode(): a request for a code takes the client away from the         *)
(* verifications under way, which are mixed from then on.                  *)
LEMMA SendStep ==
  ASSUME LoginInv, NEW c \in Call,
         SendEnter(c) \/ SendDropped(c) \/ SendConnected(c) \/ SendCode(c)
  PROVE  LoginInv'
<1> USE DEF LoginInv, Sending, Verifying, LoggingOut, Others
<1>1. CASE SendEnter(c)
  <2>1. /\ client' \in Session \union {Null} /\ made' \subseteq Session
        /\ made \subseteq made' /\ client' \in made' \union {Null}
        /\ \E stop \in {"connecting", "dropping"} : pc' = [pc EXCEPT ![c] = stop]
    BY <1>1 DEF SendEnter, Connect, Goto, TypeOK
  <2>2. /\ up /\ pc[c] = "idle" /\ Overlap(Verifying)
        /\ last' = IF mixed' THEN "unknown" ELSE last
        /\ UNCHANGED <<signedIn, stored, up, authorized, challenge, stage, key, held, asked>>
    BY <1>1 DEF SendEnter, Disconnected, authVars
  <2>3. /\ mixed' \in BOOLEAN
        /\ ~mixed' => /\ \A d \in Call : pc[d] \notin Verifying
                      /\ ~mixed \/ \A d \in Call : pc[d] = "idle"
    BY <2>2, OverlapFacts
  <2>4. TypeOK'
    BY <2>1, <2>2, <2>3 DEF TypeOK
  <2>5. DownIdle' /\ AtWork' /\ Asked'
    BY <2>1, <2>2 DEF DownIdle, AtWork, Asked, PasswordFollowsCode, TypeOK
  <2>6. NotMixed' /\ PureKeys' /\ Cleared'
    BY <2>1, <2>2, <2>3 DEF NotMixed, PureKeys, Cleared, TypeOK
  <2>7. OutQuiet' /\ InQuiet'
    BY <2>1, <2>2, <2>3 DEF OutQuiet, InQuiet, TypeOK
  <2> QED
    BY <2>4, <2>5, <2>6, <2>7
<1>2. CASE SendDropped(c) \/ SendConnected(c)
  <2>1. /\ client' \in Session \union {Null} /\ made' \subseteq Session
        /\ made \subseteq made' /\ client' \in made' \union {Null}
        /\ pc[c] \in Sending
        /\ \E stop \in Sending : pc' = [pc EXCEPT ![c] = stop]
    BY <1>2 DEF SendDropped, SendConnected, Connect, Goto, TypeOK
  <2>2. UNCHANGED <<signedIn, stored, up, authorized, challenge, stage, key, held, asked,
                    mixed, last>>
    BY <1>2 DEF SendDropped, SendConnected, authVars, histVars
  <2>3. TypeOK'
    BY <2>1, <2>2 DEF TypeOK
  <2>4. DownIdle' /\ AtWork' /\ Asked'
    BY <2>1, <2>2 DEF DownIdle, AtWork, Asked, PasswordFollowsCode, TypeOK
  <2>5. NotMixed' /\ PureKeys' /\ Cleared'
    BY <2>1, <2>2 DEF NotMixed, PureKeys, Cleared, TypeOK
  <2>6. OutQuiet' /\ InQuiet'
    BY <2>1, <2>2 DEF OutQuiet, InQuiet, TypeOK
  <2> QED
    BY <2>3, <2>4, <2>5, <2>6
<1>3. CASE SendCode(c)
  <2>1. PICK h \in Challenge :
          /\ stage[h] = "absent" /\ challenge' = h
          /\ stage' = [stage EXCEPT ![h] = "code"]
    BY <1>3 DEF SendCode
  <2>2. /\ pc[c] = "sending" /\ pc' = [pc EXCEPT ![c] = "idle"]
        /\ UNCHANGED <<signedIn, stored, up, client, authorized, made, key, held, asked,
                       mixed, last>>
    BY <1>3 DEF SendCode, Return, Goto, histVars
  <2>3. TypeOK'
    BY <2>1, <2>2 DEF TypeOK
  <2>4. DownIdle' /\ AtWork' /\ Asked'
    BY <2>1, <2>2 DEF DownIdle, AtWork, Asked, PasswordFollowsCode, TypeOK
  <2>5. NotMixed' /\ PureKeys' /\ Cleared'
    BY <2>2 DEF NotMixed, PureKeys, Cleared, TypeOK
  <2>6. OutQuiet' /\ InQuiet'
    BY <2>2 DEF OutQuiet, InQuiet, TypeOK
  <2> QED
    BY <2>3, <2>4, <2>5, <2>6
<1> QED
  BY <1>1, <1>2, <1>3

-----------------------------------------------------------------------------
(* A verification begins for the current challenge and the client there is. *)
LEMMA VerifyStep ==
  ASSUME LoginInv, NEW c \in Call, VerifyCode(c) \/ VerifyPassword(c)
  PROVE  LoginInv'
<1> USE DEF LoginInv, Sending, Verifying, LoggingOut, Others
<1>1. \/ stage[challenge] = "code" /\ pc' = [pc EXCEPT ![c] = "signingIn"]
      \/ stage[challenge] = "password" /\ pc' = [pc EXCEPT ![c] = "checking"]
  BY DEF VerifyCode, VerifyPassword, VerifyEnter, Goto
<1>2. /\ up /\ pc[c] = "idle" /\ challenge # Null /\ last' = "unknown"
      /\ client # Null
      /\ key' = [key EXCEPT ![c] = client] /\ held' = [held EXCEPT ![c] = challenge]
      /\ Overlap(Sending \union LoggingOut)
      /\ UNCHANGED <<signedIn, stored, up, client, authorized, challenge, stage, made, asked>>
  BY DEF VerifyCode, VerifyPassword, VerifyEnter, RequireClient, procVars, authVars
<1>3. /\ mixed' \in BOOLEAN
      /\ ~mixed' => /\ \A d \in Call : pc[d] \notin Others
                    /\ ~mixed \/ \A d \in Call : pc[d] = "idle"
  BY <1>2, OverlapFacts
<1>4. TypeOK'
  BY <1>1, <1>2, <1>3 DEF TypeOK
<1>5. DownIdle' /\ OutQuiet' /\ InQuiet'
  BY <1>1, <1>2 DEF DownIdle, OutQuiet, InQuiet
<1>6. AtWork' /\ Asked'
  BY <1>1, <1>2 DEF AtWork, Asked, PasswordFollowsCode, TypeOK
<1>7. NotMixed' /\ PureKeys' /\ Cleared'
  BY <1>1, <1>2, <1>3 DEF NotMixed, PureKeys, Cleared, TypeOK
<1> QED
  BY <1>4, <1>5, <1>6, <1>7

(* ... and goes on: verifications are under way, so nobody has signed out, *)
(* and if they are not mixed, all save the same session.                   *)
LEMMA VerifiedStep ==
  ASSUME LoginInv, NEW c \in Call,
         PasswordNeeded(c) \/ SignedIn(c) \/ Persist(c) \/ Authorize(c)
  PROVE  LoginInv'
<1> USE DEF LoginInv, Sending, Verifying, LoggingOut, Others
<1>0. pc[c] \in Verifying /\ last # "out"
  BY DEF PasswordNeeded, SignedIn, Persist, Authorize, OutQuiet
<1>1. CASE PasswordNeeded(c)
  <2>1. /\ held[c] \in Challenge /\ stage' = [stage EXCEPT ![held[c]] = "password"]
        /\ asked' = asked \union {held[c]}
        /\ pc' = [pc EXCEPT ![c] = "idle"]
        /\ UNCHANGED <<signedIn, stored, up, client, authorized, challenge, made, key, held,
                       mixed, last>>
    BY <1>0, <1>1 DEF PasswordNeeded, Staged, Return, Goto, AtWork
  <2>2. TypeOK'
    BY <2>1 DEF TypeOK
  <2>3. DownIdle' /\ AtWork' /\ Asked'
    BY <2>1 DEF DownIdle, AtWork, Asked, PasswordFollowsCode, TypeOK
  <2>4. NotMixed' /\ PureKeys' /\ Cleared' /\ OutQuiet' /\ InQuiet'
    BY <2>1 DEF NotMixed, PureKeys, Cleared, OutQuiet, InQuiet, TypeOK
  <2> QED
    BY <2>2, <2>3, <2>4
<1>2. CASE SignedIn(c)
  <2>1. /\ client # Null /\ signedIn' = signedIn \union {key[c]}
        /\ key' = [key EXCEPT ![c] = client] /\ pc' = [pc EXCEPT ![c] = "persisting"]
        /\ UNCHANGED <<stored, up, client, authorized, challenge, stage, made, held, asked,
                       mixed, last>>
    BY <1>2 DEF SignedIn, RequireClient, Goto, procVars, authVars, histVars
  <2>2. TypeOK'
    BY <1>0, <2>1 DEF TypeOK, AtWork
  <2>3. DownIdle' /\ AtWork' /\ Asked'
    BY <1>0, <2>1 DEF DownIdle, AtWork, Asked, PasswordFollowsCode, TypeOK
  <2>4. NotMixed' /\ PureKeys' /\ Cleared' /\ OutQuiet' /\ InQuiet'
    BY <1>0, <2>1 DEF NotMixed, PureKeys, Cleared, OutQuiet, InQuiet, TypeOK
  <2> QED
    BY <2>2, <2>3, <2>4
<1>3. CASE Persist(c)
  <2>1. /\ pc[c] = "persisting" /\ stored' = key[c]
        /\ pc' = [pc EXCEPT ![c] = "persisted"]
        /\ UNCHANGED <<signedIn, up, client, authorized, challenge, stage, made, key, held,
                       asked, mixed, last>>
    BY <1>3 DEF Persist, Goto, procVars, authVars, histVars
  <2>2. TypeOK'
    BY <2>1 DEF TypeOK
  <2>3. DownIdle' /\ AtWork' /\ Asked'
    BY <1>0, <2>1 DEF DownIdle, AtWork, Asked, PasswordFollowsCode, TypeOK
  <2>4. NotMixed' /\ PureKeys' /\ Cleared' /\ OutQuiet' /\ InQuiet'
    BY <1>0, <2>1 DEF NotMixed, PureKeys, Cleared, OutQuiet, InQuiet, TypeOK
  <2> QED
    BY <2>2, <2>3, <2>4
<1>4. CASE Authorize(c)
  <2>1. /\ pc[c] = "persisted" /\ pc' = [pc EXCEPT ![c] = "idle"]
        /\ authorized' = TRUE /\ challenge' = Null
        /\ last' = IF mixed THEN "unknown" ELSE "in"
        /\ UNCHANGED <<signedIn, stored, up, client, stage, made, key, held, asked, mixed>>
    BY <1>4 DEF Authorize, Return, Goto
  <2>2. TypeOK'
    BY <2>1 DEF TypeOK
  <2>3. DownIdle' /\ AtWork' /\ Asked'
    BY <1>0, <2>1 DEF DownIdle, AtWork, Asked, PasswordFollowsCode, TypeOK
  <2>4. NotMixed' /\ PureKeys' /\ Cleared' /\ OutQuiet'
    BY <1>0, <2>1 DEF NotMixed, PureKeys, Cleared, OutQuiet, TypeOK
  <2>5. InQuiet'
    BY <1>0, <2>1 DEF NotMixed, PureKeys, InQuiet, TypeOK
  <2> QED
    BY <2>2, <2>3, <2>4, <2>5
<1> QED
  BY <1>1, <1>2, <1>3, <1>4

-----------------------------------------------------------------------------
(* logOut(): the client there is answers, or the finally block is reached. *)
LEMMA AwaitFacts ==
  ASSUME TypeOK, NEW c \in Call, NEW stop, Await(c, stop)
  PROVE  /\ authorized' \in BOOLEAN /\ (authorized' => authorized)
         /\ challenge' \in {challenge, Null}
         /\ \/ pc' = [pc EXCEPT ![c] = stop]
            \/ pc' = [pc EXCEPT ![c] = "clearing"] /\ ~authorized'
BY DEF Await, Clear, Goto, TypeOK

LEMMA LogOutStep ==
  ASSUME LoginInv, NEW c \in Call,
         LogOutEnter(c) \/ LoggedOut(c) \/ LogOutFails(c) \/ Left(c) \/ LogOut(c)
         \/ ClearFails(c)
  PROVE  LoginInv'
<1> USE DEF LoginInv, Sending, Verifying, LoggingOut, Others
<1>1. CASE LogOutEnter(c)
  <2>1. /\ up /\ pc[c] = "idle" /\ Overlap(Verifying) /\ last' = "unknown"
        /\ key' = [key EXCEPT ![c] = client]
        /\ UNCHANGED <<signedIn, stored, up, client, stage, made, held, asked>>
    BY <1>1 DEF LogOutEnter
  <2>2. /\ authorized' \in BOOLEAN /\ (authorized' => authorized)
        /\ challenge' \in {challenge, Null}
        /\ \/ pc' = [pc EXCEPT ![c] = "loggingOut"]
           \/ pc' = [pc EXCEPT ![c] = "clearing"] /\ ~authorized'
    BY <1>1, AwaitFacts DEF LogOutEnter
  <2>3. /\ mixed' \in BOOLEAN
        /\ ~mixed' => /\ \A d \in Call : pc[d] \notin Verifying
                      /\ ~mixed \/ \A d \in Call : pc[d] = "idle"
    BY <2>1, OverlapFacts
  <2>4. TypeOK'
    BY <2>1, <2>2, <2>3 DEF TypeOK
  <2>5. DownIdle' /\ AtWork' /\ Asked'
    BY <2>1, <2>2 DEF DownIdle, AtWork, Asked, PasswordFollowsCode, TypeOK
  <2>6. NotMixed' /\ PureKeys' /\ Cleared' /\ OutQuiet' /\ InQuiet'
    BY <2>1, <2>2, <2>3 DEF NotMixed, PureKeys, Cleared, OutQuiet, InQuiet, TypeOK
  <2> QED
    BY <2>4, <2>5, <2>6
<1>2. CASE LoggedOut(c) \/ LogOutFails(c)
  <2>1. /\ pc[c] \in {"loggingOut", "leaving"}
        /\ signedIn' \in {signedIn, signedIn \ {key[c]}}
        /\ UNCHANGED <<stored, up, client, stage, made, key, held, asked, mixed, last>>
    BY <1>2 DEF LoggedOut, LogOutFails, histVars
  <2>2. /\ authorized' \in BOOLEAN /\ (authorized' => authorized)
        /\ challenge' \in {challenge, Null}
        /\ \/ \E stop \in {"leaving", "leavingAgain"} : pc' = [pc EXCEPT ![c] = stop]
           \/ pc' = [pc EXCEPT ![c] = "clearing"] /\ ~authorized'
    BY <1>2, AwaitFacts DEF LoggedOut, LogOutFails
  <2>3. TypeOK'
    BY <2>1, <2>2 DEF TypeOK
  <2>4. DownIdle' /\ AtWork' /\ Asked'
    BY <2>1, <2>2 DEF DownIdle, AtWork, Asked, PasswordFollowsCode, TypeOK
  <2>5. NotMixed' /\ PureKeys' /\ Cleared'
    BY <2>1, <2>2 DEF NotMixed, PureKeys, Cleared, TypeOK
  <2>6. OutQuiet' /\ InQuiet'
    BY <2>1, <2>2 DEF OutQuiet, InQuiet, TypeOK
  <2> QED
    BY <2>3, <2>4, <2>5, <2>6
<1>3. CASE Left(c)
  <2>1. /\ pc[c] \in {"leaving", "leavingAgain"} /\ client' \in {client, Null}
        /\ ~authorized' /\ authorized' \in BOOLEAN /\ challenge' = Null
        /\ pc' = [pc EXCEPT ![c] = "clearing"]
        /\ UNCHANGED <<signedIn, stored, up, stage, made, key, held, asked, mixed, last>>
    BY <1>3 DEF Left, Clear, Goto, histVars
  <2>2. TypeOK'
    BY <2>1 DEF TypeOK
  <2>3. DownIdle' /\ AtWork' /\ Asked'
    BY <2>1 DEF DownIdle, AtWork, Asked, PasswordFollowsCode, TypeOK
  <2>4. NotMixed' /\ PureKeys' /\ Cleared' /\ OutQuiet' /\ InQuiet'
    BY <2>1 DEF NotMixed, PureKeys, Cleared, OutQuiet, InQuiet, TypeOK
  <2> QED
    BY <2>2, <2>3, <2>4
<1>4. CASE LogOut(c)
  <2>1. /\ pc[c] = "clearing" /\ stored' = Null /\ pc' = [pc EXCEPT ![c] = "idle"]
        /\ last' = IF mixed THEN "unknown" ELSE "out"
        /\ UNCHANGED <<signedIn, up, client, authorized, challenge, stage, made, key, held,
                       asked, mixed>>
    BY <1>4 DEF LogOut, Return, Goto, procVars, authVars
  <2>2. TypeOK'
    BY <2>1 DEF TypeOK
  <2>3. DownIdle' /\ AtWork' /\ Asked'
    BY <2>1 DEF DownIdle, AtWork, Asked, PasswordFollowsCode, TypeOK
  <2>4. NotMixed' /\ PureKeys' /\ Cleared' /\ OutQuiet' /\ InQuiet'
    BY <2>1 DEF NotMixed, PureKeys, Cleared, OutQuiet, InQuiet, TypeOK
  <2> QED
    BY <2>2, <2>3, <2>4
<1>5. CASE ClearFails(c)
  <2>1. /\ pc[c] = "clearing" /\ stored' \in {stored, Null}
        /\ pc' = [pc EXCEPT ![c] = "idle"]
        /\ UNCHANGED <<signedIn, up, client, authorized, challenge, stage, made, key, held,
                       asked, mixed, last>>
    BY <1>5 DEF ClearFails, Return, Goto, procVars, authVars, histVars
  <2>2. TypeOK'
    BY <2>1 DEF TypeOK
  <2>3. DownIdle' /\ AtWork' /\ Asked'
    BY <2>1 DEF DownIdle, AtWork, Asked, PasswordFollowsCode, TypeOK
  <2>4. NotMixed' /\ PureKeys' /\ Cleared' /\ OutQuiet' /\ InQuiet'
    BY <2>1 DEF NotMixed, PureKeys, Cleared, OutQuiet, InQuiet, TypeOK
  <2> QED
    BY <2>2, <2>3, <2>4
<1> QED
  BY <1>1, <1>2, <1>3, <1>4, <1>5

-----------------------------------------------------------------------------
(* Failures, expiry, crash and restart. *)
LEMMA FaultStep ==
  ASSUME LoginInv, (\E c \in Call : CallFails(c)) \/ Expire \/ Crash \/ Boot
  PROVE  LoginInv'
<1> USE DEF LoginInv, Sending, Verifying, LoggingOut, Others
<1>1. CASE \E c \in Call : CallFails(c)
  <2>0. PICK c \in Call : CallFails(c)
    BY <1>1
  <2>1. /\ pc[c] \in Sending \union Verifying /\ pc' = [pc EXCEPT ![c] = "idle"]
        /\ signedIn \subseteq signedIn' /\ signedIn' \subseteq made
        /\ UNCHANGED <<stored, up, client, authorized, challenge, stage, made, key, held,
                       asked, mixed, last>>
    BY <2>0 DEF CallFails, Return, Goto, AtWork, TypeOK, procVars, authVars, histVars
  <2>2. TypeOK'
    BY <2>1 DEF TypeOK
  <2>3. DownIdle' /\ AtWork' /\ Asked'
    BY <2>1 DEF DownIdle, AtWork, Asked, PasswordFollowsCode, TypeOK
  <2>4. NotMixed' /\ PureKeys' /\ Cleared' /\ OutQuiet' /\ InQuiet'
    BY <2>1 DEF NotMixed, PureKeys, Cleared, OutQuiet, InQuiet, TypeOK
  <2> QED
    BY <2>2, <2>3, <2>4
<1>2. CASE Expire
  <2>1. /\ challenge' = Null
        /\ UNCHANGED <<signedIn, stored, up, client, authorized, stage, made, pc, key, held,
                       asked, mixed, last>>
    BY <1>2 DEF Expire, callVars, histVars
  <2>2. TypeOK'
    BY <2>1 DEF TypeOK
  <2>3. DownIdle' /\ AtWork' /\ Asked'
    BY <2>1 DEF DownIdle, AtWork, Asked, PasswordFollowsCode, TypeOK
  <2>4. NotMixed' /\ PureKeys' /\ Cleared' /\ OutQuiet' /\ InQuiet'
    BY <2>1 DEF NotMixed, PureKeys, Cleared, OutQuiet, InQuiet, TypeOK
  <2> QED
    BY <2>2, <2>3, <2>4
<1>3. CASE Crash
  <2>1. /\ ~up' /\ up' \in BOOLEAN /\ client' = Null /\ challenge' = Null
        /\ ~authorized' /\ authorized' \in BOOLEAN /\ pc' = [c \in Call |-> "idle"]
        /\ UNCHANGED <<signedIn, stored, stage, made, key, held, asked, mixed, last>>
    BY <1>3 DEF Crash, histVars
  <2>2. TypeOK'
    BY <2>1 DEF TypeOK
  <2>3. DownIdle' /\ AtWork' /\ Asked'
    BY <2>1 DEF DownIdle, AtWork, Asked, PasswordFollowsCode, TypeOK
  <2>4. NotMixed' /\ PureKeys' /\ Cleared' /\ OutQuiet' /\ InQuiet'
    BY <2>1 DEF NotMixed, PureKeys, Cleared, OutQuiet, InQuiet, TypeOK
  <2> QED
    BY <2>2, <2>3, <2>4
<1>4. CASE Boot
  <2>0. Null \notin signedIn
    BY LoginAssumption DEF TypeOK
  <2>1. /\ up' = TRUE /\ client' \in {stored, Null} /\ authorized' \in BOOLEAN
        /\ authorized' => client' \in signedIn
        /\ \A c \in Call : pc[c] = "idle"
        /\ UNCHANGED <<signedIn, stored, challenge, stage, made, pc, key, held, asked, mixed,
                       last>>
    BY <1>4 DEF Boot, DownIdle, callVars, histVars
  <2>2. TypeOK'
    BY <2>1 DEF TypeOK
  <2>3. DownIdle' /\ AtWork' /\ Asked'
    BY <2>1 DEF DownIdle, AtWork, Asked, PasswordFollowsCode, TypeOK
  <2>4. NotMixed' /\ PureKeys' /\ Cleared' /\ OutQuiet' /\ InQuiet'
    BY <2>0, <2>1 DEF NotMixed, PureKeys, Cleared, OutQuiet, InQuiet, TypeOK
  <2> QED
    BY <2>2, <2>3, <2>4
<1> QED
  BY <1>1, <1>2, <1>3, <1>4

-----------------------------------------------------------------------------
(* Every step preserves the invariant. *)
LEMMA LoginStep == LoginInv /\ [Next]_vars => LoginInv'
<1> SUFFICES ASSUME LoginInv, [Next]_vars PROVE LoginInv'
  OBVIOUS
<1>1. CASE Next
  BY <1>1, SendStep, VerifyStep, VerifiedStep, LogOutStep, FaultStep DEF Next
<1>2. CASE UNCHANGED vars
  BY <1>2 DEF vars, procVars, authVars, callVars, histVars, LoginInv, TypeOK, DownIdle,
              AtWork, NotMixed, PureKeys, Cleared, OutQuiet, InQuiet, Asked,
              PasswordFollowsCode
<1> QED
  BY <1>1, <1>2

(* Verifications that are not mixed are alone and about one client, so     *)
(* what they save is signed in and nothing they do outlasts a logOut.      *)
THEOREM LoginInvariant == Spec => []LoginInv
BY InitLogin, LoginStep, PTL DEF Spec

(* After a logOut that no verification overlapped nobody is signed in, and *)
(* no restart signs anybody in, for any number of requests and failures.   *)
THEOREM LogoutIsFinalHolds == Spec => []LogoutIsFinal
<1>1. LoginInv => LogoutIsFinal
  BY DEF LoginInv, OutQuiet, LogoutIsFinal
<1> QED
  BY <1>1, LoginInvariant, PTL

(* The session that a verification stored alone stays one that Telegram    *)
(* has signed in.                                                          *)
THEOREM LoginIsKeptHolds == Spec => []LoginIsKept
<1>1. LoginInv => LoginIsKept
  BY DEF LoginInv, InQuiet, LoginIsKept
<1> QED
  BY <1>1, LoginInvariant, PTL

(* A password is checked for the challenge that Telegram asked it for.     *)
THEOREM PasswordFollowsCodeHolds == Spec => []PasswordFollowsCode
<1>1. LoginInv => PasswordFollowsCode
  BY DEF LoginInv, Asked
<1> QED
  BY <1>1, LoginInvariant, PTL

(* Every variable of TelegramLogin keeps its type. *)
THEOREM LoginTypeCorrect == Spec => []TypeOK
<1>1. LoginInv => TypeOK
  BY DEF LoginInv
<1> QED
  BY <1>1, LoginInvariant, PTL
=============================================================================
