---------------------------- MODULE SecondFactor ----------------------------
(***************************************************************************)
(* The second factor of one account: TOTP codes, recovery codes and the    *)
(* sessions they open (backend/app/security.py and login in main.py).      *)
(*                                                                         *)
(* The handlers of a session lock the account's profile and are atomic.    *)
(* login reads the profile without a lock and consumes the code by a       *)
(* compare-and-swap of its own: on last_counter for a TOTP code, on        *)
(* recovery_revision for a recovery code, whose list it writes back whole. *)
(*                                                                         *)
(* A refused attempt changes nothing here; the password and the limit of   *)
(* attempts in fifteen minutes only refuse, so neither appears.            *)
(***************************************************************************)
EXTENDS Integers, FiniteSets

CONSTANTS
    Logins,         \* the logins under way and the sessions they open
    MaxCounter,     \* bound: the last period of thirty seconds
    MaxSecrets,     \* bound: secrets that may be prepared
    CodesPerSet,    \* recovery codes handed out at a time
    None

ASSUME SecondFactorAssumption ==
    /\ MaxCounter \in Nat
    /\ MaxSecrets \in Nat
    /\ CodesPerSet \in Nat \ {0}
    /\ None \notin Nat

VARIABLES
    required,   \* settings.mfa_required
    counter,    \* the current period of thirty seconds
    profile,    \* the row of account_security
    secrets,    \* the number of secrets prepared so far
    logins,     \* each login, then its session
    spent,      \* history: the codes that were accepted
    respent     \* history: those accepted once more

vars == <<required, counter, profile, secrets, logins, spent, respent>>

Counters == -1 .. MaxCounter + 1
SecretIds == 1 .. MaxSecrets
Totp == [secret : SecretIds, period : Counters]
Recovery == [set : SecretIds, number : 1 .. CodesPerSet]
Codes == Totp \cup Recovery

Profile == [enabled : BOOLEAN, secret : SecretIds \cup {None},
            pending : SecretIds \cup {None}, lastCounter : Counters,
            recovery : SUBSET Recovery, revision : Nat]

Login == [stage : {"checked", "open"},
          code : Codes \cup {None},     \* the factor, None without one
          recovery : SUBSET Recovery,   \* recovery_hashes as it was read
          revision : Nat,               \* recovery_revision as it was read
          overtaken : BOOLEAN]          \* history: MFA was enabled or
                                        \* reset between read and commit

ASSUME NoneAssumption == None \notin Login \cup Codes

TypeOK ==
    /\ required \in BOOLEAN
    /\ counter \in 0 .. MaxCounter
    /\ profile \in Profile
    /\ secrets \in 0 .. MaxSecrets
    /\ logins \in [Logins -> Login \cup {None}]
    /\ spent \subseteq Codes
    /\ respent \subseteq Codes

Init ==
    /\ required \in BOOLEAN
    /\ counter = 0
    /\ profile = [enabled |-> FALSE, secret |-> None, pending |-> None,
                  lastCounter |-> -1, recovery |-> {}, revision |-> 0]
    /\ secrets = 0
    /\ logins = [l \in Logins |-> None]
    /\ spent = {}
    /\ respent = {}

-----------------------------------------------------------------------------
(* Codes.                                                                  *)

(* The codes of a secret a check accepts now: one period to either side.   *)
Window(secret) ==
    [secret : {secret}, period : (counter - 1) .. (counter + 1)]

IsTotp(code) == code \in Totp

(* The codes consume_mfa finds valid in the profile it was given.          *)
Matching ==
    {code \in Window(profile.secret) : code.period > profile.lastCounter}
        \cup profile.recovery

Spend(code) ==
    /\ spent' = spent \cup {code}
    /\ respent' = respent \cup ({code} \cap spent)

(* By a login that read a profile since enabled anew or reset: enable and  *)
(* reset set last_counter back.                                            *)
SpendOvertaken(code) ==
    /\ spent' = spent \cup {code}
    /\ respent' = IF IsTotp(code) THEN respent
                  ELSE respent \cup ({code} \cap spent)

(* Faulty variant: a recovery code is taken off the list that was read.    *)
ConsumableByList(code, revision) ==
    IsTotp(code) => profile.lastCounter < code.period

(* The compare-and-swap.                                                   *)
Consumable(code, revision) ==
    IF IsTotp(code) THEN profile.lastCounter < code.period
                    ELSE profile.revision = revision

Consumed(code, recovery) ==
    IF IsTotp(code)
    THEN [profile EXCEPT !.lastCounter = code.period]
    ELSE [profile EXCEPT !.recovery = recovery \ {code},
                         !.revision = @ + 1]

-----------------------------------------------------------------------------
(* login.                                                                  *)

(* The password was right; the profile is read, the code compared with it. *)
CheckLogin(l) ==
    /\ logins[l] = None
    /\ \E code \in IF profile.enabled THEN Matching ELSE {None} :
          logins' = [logins EXCEPT ![l] =
              [stage |-> "checked", code |-> code,
               recovery |-> profile.recovery, revision |-> profile.revision,
               overtaken |-> FALSE]]
    /\ UNCHANGED <<required, counter, profile, secrets, spent, respent>>

OpenSession(l) ==
    logins' = [logins EXCEPT ![l].stage = "open"]

LoginWithout(l) ==
    /\ logins[l] # None /\ logins[l].stage = "checked"
    /\ logins[l].code = None
    /\ OpenSession(l)
    /\ UNCHANGED <<required, counter, profile, secrets, spent, respent>>

LoginWith(l) ==
    /\ logins[l] # None /\ logins[l].stage = "checked"
    /\ logins[l].code # None
    /\ LET code == logins[l].code IN
       IF Consumable(code, logins[l].revision)
       THEN /\ profile' = Consumed(code, logins[l].recovery)
            /\ IF logins[l].overtaken THEN SpendOvertaken(code)
                                      ELSE Spend(code)
            /\ OpenSession(l)
       ELSE /\ logins' = [logins EXCEPT ![l] = None]
            /\ UNCHANGED <<profile, spent, respent>>
    /\ UNCHANGED <<required, counter, secrets>>

Sessions == {l \in Logins : logins[l] # None /\ logins[l].stage = "open"}

(* The sessions are deleted except those of kept; logins go on.            *)
WithoutSessions(kept) ==
    [l \in Logins |-> IF l \in Sessions \ kept THEN None ELSE logins[l]]

(* logout, or the session has expired.                                     *)
Logout(l) ==
    /\ l \in Sessions
    /\ logins' = [logins EXCEPT ![l] = None]
    /\ UNCHANGED <<required, counter, profile, secrets, spent, respent>>

-----------------------------------------------------------------------------
(* The handlers of a session.                                              *)

Setup ==
    /\ Sessions # {}
    /\ ~profile.enabled
    /\ secrets < MaxSecrets
    /\ secrets' = secrets + 1
    /\ profile' = [profile EXCEPT !.pending = secrets + 1]
    /\ UNCHANGED <<required, counter, logins, spent, respent>>

(* pending_expires_at: the prepared secret can no longer be enabled.       *)
PreparationExpires ==
    /\ profile.pending # None
    /\ profile' = [profile EXCEPT !.pending = None]
    /\ UNCHANGED <<required, counter, secrets, logins, spent, respent>>

RecoverySet(secret) == [set : {secret}, number : 1 .. CodesPerSet]

(* The logins that read the profile and have not committed yet.            *)
Overtaken(ls) ==
    [l \in Logins |->
        IF ls[l] # None
        THEN [ls[l] EXCEPT !.overtaken = ls[l].stage = "checked"] ELSE None]

(* Faulty variant: the sessions opened with the password alone stay.       *)
AfterEnablingAll == Overtaken(logins)

AfterEnabling == Overtaken(WithoutSessions({}))

Enable ==
    /\ Sessions # {}
    /\ ~profile.enabled
    /\ profile.pending # None
    /\ \E code \in Window(profile.pending) :
          /\ profile' = [profile EXCEPT
                !.enabled = TRUE,
                !.secret = profile.pending,
                !.pending = None,
                !.lastCounter = code.period,
                !.recovery = RecoverySet(profile.pending)]
          /\ Spend(code)
    /\ logins' = AfterEnabling
    /\ UNCHANGED <<required, counter, secrets>>

(* The proof disable and reset ask for, consumed under the lock.           *)
Proven(code) ==
    /\ profile.enabled
    /\ code \in Matching
    /\ Spend(code)

Disable ==
    /\ Sessions # {}
    /\ ~required
    /\ \E code \in Matching :
          /\ Proven(code)
          /\ profile' = [Consumed(code, profile.recovery) EXCEPT
                            !.enabled = FALSE,
                            !.secret = None,
                            !.recovery = {}]
    /\ logins' = WithoutSessions({})
    /\ UNCHANGED <<required, counter, secrets>>

(* Faulty variant: the list is emptied under its old revision.             *)
WithdrawnSameRevision(row) ==
    [row EXCEPT !.enabled = FALSE, !.secret = None, !.pending = None,
                !.lastCounter = -1, !.recovery = {}]

Withdrawn(row) ==
    [row EXCEPT !.enabled = FALSE, !.secret = None, !.pending = None,
                !.lastCounter = -1, !.recovery = {}, !.revision = @ + 1]

(* The session that asks for it goes on, to enrol a new factor.            *)
Reset(l) ==
    /\ l \in Sessions
    /\ \E code \in Matching :
          /\ Proven(code)
          /\ profile' = Withdrawn(Consumed(code, profile.recovery))
    /\ logins' = Overtaken(WithoutSessions({l}))
    /\ UNCHANGED <<required, counter, secrets>>

Tick ==
    /\ counter < MaxCounter
    /\ counter' = counter + 1
    /\ UNCHANGED <<required, profile, secrets, logins, spent, respent>>

Next ==
    \/ \E l \in Logins : \/ CheckLogin(l) \/ LoginWithout(l) \/ LoginWith(l)
                         \/ Logout(l) \/ Reset(l)
    \/ Setup \/ PreparationExpires \/ Enable \/ Disable
    \/ Tick

Spec == Init /\ [][Next]_vars

-----------------------------------------------------------------------------

(* A code is accepted once, by logins, disable and reset, whatever becomes *)
(* of the factor meanwhile (docs/security/SECURITY-BASELINE.md 16, comment *)
(* in consume_mfa: consumed atomically, even across workers).  The code    *)
(* keeps that for every recovery code, and for every TOTP code but one: a  *)
(* login that had read the profile before a reset, or before the factor    *)
(* was enabled anew, and commits after it, is compared with a last_counter *)
(* that was set back, and may use a code that has opened a session before. *)
CodeOnce == respent = {}

(* Where MFA is required, the list holds exactly the codes handed out with *)
(* the factor in force that were not used: logins that cross each other or *)
(* a reset lose none and bring none back.                                  *)
RecoveryListExact ==
    required /\ profile.enabled =>
        profile.recovery = RecoverySet(profile.secret) \ spent

(* While the factor is in force a session was opened with a code, unless   *)
(* its login read the profile before the factor was enabled and committed  *)
(* after it.                                                               *)
SessionsHaveFactor ==
    profile.enabled =>
        \A l \in Sessions : logins[l].code # None \/ logins[l].overtaken
=============================================================================
