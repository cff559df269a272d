---------------------------- MODULE SecondFactor ----------------------------
(***************************************************************************)
(* One user's second factor: setup, confirmation, removal and the login    *)
(* that asks for it (backend/src/modules/auth/twoFactorService.ts, the     *)
(* handlers of authController.ts and the statements of usersRepository.ts).*)
(* A confirmation checks a code against the secret it has read and then    *)
(* activates whatever secret the row holds by then.                        *)
(*   A code stands for the secret it was made from.  AUTH_2FA_ENABLED is   *)
(* on, and the password of every login is right.                           *)
(***************************************************************************)
CONSTANTS
    Handlers,       \* requests of this user, each made once
    Secrets,        \* secrets that generateTotpSecret returns
    NoSecret        \* null

ASSUME SecondFactorAssumption == NoSecret \notin Secrets

VARIABLES
    factor,         \* two_factor_enabled, two_factor_secret, two_factor_temp_secret
    scanned,        \* secrets in the user's authenticator
    handlers,       \* request -> its handler
    proved,         \* history: secrets a confirmation has accepted a code of
    used,           \* history: secrets generated
    overtaken       \* history: see Overlap

factorVars == <<factor, scanned, handlers, proved, used, overtaken>>

Secret == Secrets \cup {NoSecret}
Handler == [pc : {"new", "setup", "confirm", "activate", "disable", "clear", "password",
                  "challenge", "plainLogin", "provedLogin", "done"},
            code : Secret]

SecondFactorTypeOK ==
    /\ factor \in [enabled : BOOLEAN, secret : Secret, temp : Secret]
    /\ scanned \in SUBSET Secrets
    /\ handlers \in [Handlers -> Handler]
    /\ proved \in SUBSET Secrets
    /\ used \in SUBSET Secrets
    /\ overtaken \in BOOLEAN

SecondFactorInit ==
    /\ factor = [enabled |-> FALSE, secret |-> NoSecret, temp |-> NoSecret]
    /\ scanned = {}
    /\ handlers = [h \in Handlers |-> [pc |-> "new", code |-> NoSecret]]
    /\ proved = {}
    /\ used = {}
    /\ overtaken = FALSE

-----------------------------------------------------------------------------
HandlerAt(h, pc) == handlers[h].pc = pc
HandlerTo(h, pc) == handlers' = [handlers EXCEPT ![h].pc = pc]

\* A request comes in; where it takes a code, the authenticator has made one.
Receive(h) ==
    /\ HandlerAt(h, "new")
    /\ \/ \E pc \in {"setup", "disable"} : HandlerTo(h, pc)
       \/ \E pc \in {"confirm", "password"}, s \in scanned \cup {NoSecret} :
             handlers' = [handlers EXCEPT ![h] = [pc |-> pc, code |-> s]]
    /\ UNCHANGED <<factor, scanned, proved, used>>

\* mutant: a setup replaces the active secret at once.
SetupReplacesSecret(h) ==
    /\ HandlerAt(h, "setup")
    /\ \E s \in Secrets \ used :
          /\ factor' = [factor EXCEPT !.secret = s, !.temp = s]
          /\ used' = used \cup {s}
          /\ scanned' \in {scanned, scanned \cup {s}}
    /\ HandlerTo(h, "done")
    /\ UNCHANGED proved

\* startTwoFactorSetup stores a new secret beside the active one; the answer with
\* its QR code reaches the user or is lost.
Setup(h) ==
    /\ HandlerAt(h, "setup")
    /\ \E s \in Secrets \ used :
          /\ factor' = [factor EXCEPT !.temp = s]
          /\ used' = used \cup {s}
          /\ scanned' \in {scanned, scanned \cup {s}}
    /\ HandlerTo(h, "done")
    /\ UNCHANGED proved

Valid(secret, code) == secret # NoSecret /\ code = secret

\* confirmTwoFactorSetup reads the state and verifies the code.
ConfirmCode(h) ==
    /\ HandlerAt(h, "confirm")
    /\ Valid(factor.temp, handlers[h].code)
    /\ proved' = proved \cup {handlers[h].code}
    /\ HandlerTo(h, "activate")
    /\ UNCHANGED <<factor, scanned, used>>

\* Nothing is pending, the code is wrong, or a statement of any handler fails.
RefuseOrFail(h) ==
    /\ handlers[h].pc \in {"setup", "confirm", "activate", "disable", "clear", "password",
                           "challenge"}
    /\ HandlerTo(h, "done")
    /\ UNCHANGED <<factor, scanned, proved, used>>

\* activateTwoFactorSecret: the pending secret becomes the secret, in one statement.
Activate(h) ==
    /\ HandlerAt(h, "activate")
    /\ factor' = [enabled |-> TRUE, secret |-> factor.temp, temp |-> NoSecret]
    /\ HandlerTo(h, "done")
    /\ UNCHANGED <<scanned, proved, used>>

\* disableTwoFactorForUser reads the state for its audit, and clears it all.
ReadForDisable(h) ==
    /\ HandlerAt(h, "disable")
    /\ HandlerTo(h, "clear")
    /\ UNCHANGED <<factor, scanned, proved, used>>

Disable(h) ==
    /\ HandlerAt(h, "clear")
    /\ factor' = [enabled |-> FALSE, secret |-> NoSecret, temp |-> NoSecret]
    /\ HandlerTo(h, "done")
    /\ UNCHANGED <<scanned, proved, used>>

\* login: the password is right, and the user as read then decides about a challenge.
PasswordAccepted(h) ==
    /\ HandlerAt(h, "password")
    /\ HandlerTo(h, IF factor.enabled THEN "challenge" ELSE "plainLogin")
    /\ UNCHANGED <<factor, scanned, proved, used>>

\* loginTwoFactor: the code is verified against the active secret.
ChallengePassed(h) ==
    /\ HandlerAt(h, "challenge")
    /\ factor.enabled
    /\ Valid(factor.secret, handlers[h].code)
    /\ HandlerTo(h, "provedLogin")
    /\ UNCHANGED <<factor, scanned, proved, used>>

-----------------------------------------------------------------------------
\* Between its check and its write a confirmation meets another request's write.
Overlap ==
    \E h \in Handlers : /\ HandlerAt(h, "activate")
                        /\ \E g \in Handlers \ {h} :
                              handlers[g].pc \in {"setup", "activate", "clear"}

SecondFactorNext ==
    /\ \E h \in Handlers :
          \/ Receive(h)
          \/ Setup(h)
          \/ ConfirmCode(h) \/ Activate(h)
          \/ ReadForDisable(h) \/ Disable(h)
          \/ PasswordAccepted(h) \/ ChallengePassed(h)
          \/ RefuseOrFail(h)
    /\ overtaken' = (overtaken \/ Overlap')

SecondFactorSpec == SecondFactorInit /\ [][SecondFactorNext]_factorVars

-----------------------------------------------------------------------------
\* An enabled second factor has a secret whose code the user has given before, so
\* the user can sign in, and every login it let through was made with such a code;
\* a new setup beside it changes nothing until it is confirmed.  Unless a
\* confirmation overlapped another confirmation, setup or removal.
FactorIsProved ==
    ~overtaken =>
        /\ factor.enabled => factor.secret \in proved
        /\ \A h \in Handlers : HandlerAt(h, "provedLogin") => handlers[h].code \in proved
=============================================================================
