------------------------- MODULE SecondFactorProofs -------------------------
(***************************************************************************)
(* Proofs about SecondFactor, for any number of logins, periods, secrets   *)
(* and recovery codes.                                                     *)
(*                                                                         *)
(* A code that was accepted is not accepted again because the profile has  *)
(* moved on: past its period, or to a later revision of the list.  What    *)
(* must be added to the property is what a login that has read the profile *)
(* and not committed may still assume of it, and that a new secret is one  *)
(* that no code belongs to.                                                *)
(***************************************************************************)
EXTENDS SecondFactor, TLAPS

Checked(l) == logins[l] # None /\ logins[l].stage = "checked"

(* Every secret in use is older than the one that is prepared or the next. *)
Limit == IF profile.pending = None THEN secrets + 1 ELSE secrets

Numbered ==
    /\ profile.pending # None => profile.pending = secrets
    /\ profile.secret # None => profile.secret < Limit
    /\ profile.enabled => profile.secret # None
    /\ \A c \in Totp : c \in spent => c.secret < Limit
    /\ \A c \in Recovery : c \in spent \cup profile.recovery => c.set < Limit
    /\ \A l \in Logins : logins[l] # None =>
           /\ logins[l].code \in Totp => logins[l].code.secret < Limit
           /\ \A c \in logins[l].recovery : c.set < Limit

(* The code of a login under way is one of those it has read.              *)
LoginsRead ==
    \A l \in Logins : Checked(l) =>
        /\ logins[l].revision <= profile.revision
        /\ logins[l].code \in Recovery => logins[l].code \in logins[l].recovery

(* A login may still consume its TOTP code, unless it was overtaken, only  *)
(* while it is new: the counter is past the codes that were accepted.      *)
CounterPast(k) ==
    /\ Checked(k)
    /\ ~logins[k].overtaken
    /\ logins[k].code \in Totp
    /\ logins[k].code \in spent
    => logins[k].code.period <= profile.lastCounter

(* The codes in the profile, and those a login may still consume, are new. *)
Unspent ==
    /\ \A c \in Totp : c \in spent /\ c.secret = profile.secret =>
           c.period <= profile.lastCounter
    /\ profile.recovery \cap spent = {}
    /\ \A l \in Logins :
           Checked(l) /\ logins[l].revision = profile.revision =>
               logins[l].recovery \cap spent = {}
    /\ \A l \in Logins : CounterPast(l)

(* Where MFA is required, a list that can still be written back is the     *)
(* list in force.                                                          *)
ListCurrent ==
    required => \A l \in Logins :
        /\ Checked(l)
        /\ logins[l].code \in Recovery
        /\ logins[l].revision = profile.revision
        => profile.enabled /\ logins[l].recovery = profile.recovery

(* With the factor in force, a login without a code was overtaken by it.   *)
Overtook ==
    profile.enabled =>
        \A l \in Logins : logins[l] # None /\ logins[l].code = None =>
            logins[l].overtaken

Inv ==
    /\ TypeOK
    /\ Numbered
    /\ LoginsRead
    /\ Unspent
    /\ ListCurrent
    /\ Overtook
    /\ CodeOnce
    /\ RecoveryListExact

-----------------------------------------------------------------------------
(* Codes.                                                                  *)

(* A code is of one kind.                                                  *)
LEMMA Kinds ==
    /\ \A c \in Recovery : c \notin Totp
    /\ \A c \in Codes : ~IsTotp(c) => c \in Recovery
  <1>1. ASSUME NEW c \in Recovery, c \in Totp PROVE FALSE
    <2>1. DOMAIN c = {"set", "number"}
      BY <1>1 DEF Recovery
    <2>2. DOMAIN c = {"secret", "period"}
      BY <1>1 DEF Totp
    <2> QED BY <2>1, <2>2
  <1> QED BY <1>1 DEF Codes, IsTotp

(* What a check accepts is a code, and of the secret it is held against.   *)
LEMMA InWindow ==
    ASSUME TypeOK, NEW s \in SecretIds, NEW c \in Window(s)
    PROVE  /\ c \in Totp
           /\ c.secret = s
           /\ c.period \in Counters
  BY SecondFactorAssumption DEF TypeOK, Window, Totp, Counters

(* A code that matches the profile in force was not accepted before.       *)
LEMMA MatchingUnspent ==
    ASSUME Inv, profile.enabled, NEW c \in Matching
    PROVE  /\ c \in Codes
           /\ c \notin spent
           /\ c \in Totp => c.secret = profile.secret
           /\ c \in Totp => c.period > profile.lastCounter
           /\ c \in Recovery => c \in profile.recovery
  <1>1. profile.secret \in SecretIds
    BY DEF Inv, Numbered, TypeOK, Profile
  <1>2. CASE c \in Window(profile.secret) /\ c.period > profile.lastCounter
    <2>1. c \in Totp /\ c.secret = profile.secret /\ c.period \in Counters
      BY <1>1, <1>2, InWindow DEF Inv
    <2>2. c \notin spent
      BY <1>2, <2>1, SecondFactorAssumption
         DEF Inv, Unspent, TypeOK, Profile, Counters
    <2> QED BY <1>2, <2>1, <2>2, Kinds DEF Codes
  <1>3. CASE c \in profile.recovery
    <2>1. c \in Recovery /\ c \notin spent
      BY <1>3 DEF Inv, Unspent, TypeOK, Profile
    <2> QED BY <1>3, <2>1, Kinds DEF Codes
  <1> QED BY <1>2, <1>3 DEF Matching

(* What the compare-and-swap leaves in the profile.                        *)
LEMMA ConsumedShape ==
    ASSUME TypeOK, NEW c \in Codes, NEW list \in SUBSET Recovery
    PROVE  /\ Consumed(c, list) \in Profile
           /\ Consumed(c, list).enabled = profile.enabled
           /\ Consumed(c, list).secret = profile.secret
           /\ Consumed(c, list).pending = profile.pending
           /\ c \in Totp =>
                  /\ Consumed(c, list).lastCounter = c.period
                  /\ Consumed(c, list).recovery = profile.recovery
                  /\ Consumed(c, list).revision = profile.revision
           /\ c \in Recovery =>
                  /\ Consumed(c, list).lastCounter = profile.lastCounter
                  /\ Consumed(c, list).recovery = list \ {c}
                  /\ Consumed(c, list).revision = profile.revision + 1
  <1>1. CASE c \in Totp
    BY <1>1, Kinds DEF Consumed, IsTotp, TypeOK, Profile, Totp
  <1>2. CASE c \in Recovery
    <2>1. Consumed(c, list) = [profile EXCEPT !.recovery = list \ {c},
                                              !.revision = @ + 1]
      BY <1>2, Kinds DEF Consumed, IsTotp
    <2>2. profile \in Profile
      BY DEF TypeOK
    <2>3. list \ {c} \in SUBSET Recovery
      OBVIOUS
    <2>4. profile.revision + 1 \in Nat
      BY <2>2 DEF Profile
    <2>5. Consumed(c, list) \in Profile
      BY <2>1, <2>2, <2>3, <2>4 DEF Profile
    <2>6. c \notin Totp
      BY <1>2, Kinds
    <2> QED BY <2>1, <2>2, <2>5, <2>6 DEF Profile
  <1> QED BY <1>1, <1>2 DEF Codes

LEMMA SpendNew ==
    ASSUME TypeOK, CodeOnce, NEW c \in Codes,
           \/ Spend(c) /\ c \notin spent
           \/ SpendOvertaken(c) /\ (~IsTotp(c) => c \notin spent)
    PROVE  /\ spent' = spent \cup {c}
           /\ respent' = {}
  BY DEF Spend, SpendOvertaken, CodeOnce

(* Deleting sessions leaves the logins under way as they are.              *)
LEMMA DeletedSessions ==
    ASSUME TypeOK, NEW kept \in SUBSET Logins
    PROVE  /\ WithoutSessions(kept) \in [Logins -> Login \cup {None}]
           /\ \A l \in Logins : WithoutSessions(kept)[l] \in {None, logins[l]}
  BY DEF WithoutSessions, TypeOK

(* Overtaking marks them, and leaves what they have read.                  *)
LEMMA OvertakenLogins ==
    ASSUME NEW ls \in [Logins -> Login \cup {None}]
    PROVE  /\ Overtaken(ls) \in [Logins -> Login \cup {None}]
           /\ \A k \in Logins :
                 \/ ls[k] = None /\ Overtaken(ls)[k] = None
                 \/ /\ ls[k] # None /\ Overtaken(ls)[k] # None
                    /\ Overtaken(ls)[k].stage = ls[k].stage
                    /\ Overtaken(ls)[k].code = ls[k].code
                    /\ Overtaken(ls)[k].recovery = ls[k].recovery
                    /\ Overtaken(ls)[k].revision = ls[k].revision
                    /\ ls[k].stage = "checked" => Overtaken(ls)[k].overtaken
  <1>1. ASSUME NEW k \in Logins, ls[k] # None
        PROVE  /\ Overtaken(ls)[k] \in Login
               /\ Overtaken(ls)[k].stage = ls[k].stage
               /\ Overtaken(ls)[k].code = ls[k].code
               /\ Overtaken(ls)[k].recovery = ls[k].recovery
               /\ Overtaken(ls)[k].revision = ls[k].revision
               /\ ls[k].stage = "checked" => Overtaken(ls)[k].overtaken
    <2>1. ls[k] \in Login
      BY <1>1
    <2>2. PICK under \in BOOLEAN : under = (ls[k].stage = "checked")
      OBVIOUS
    <2>3. Overtaken(ls)[k] = [ls[k] EXCEPT !.overtaken = under]
      BY <1>1, <2>2 DEF Overtaken
    <2> QED BY <2>1, <2>2, <2>3 DEF Login
  <1>2. \A k \in Logins : ls[k] = None => Overtaken(ls)[k] = None
    BY DEF Overtaken
  <1>3. Overtaken(ls) \in [Logins -> Login \cup {None}]
    <2>1. \A k \in Logins : Overtaken(ls)[k] \in Login \cup {None}
      BY <1>1, <1>2
    <2> QED BY <2>1 DEF Overtaken
  <1>4. None \notin Login
    BY NoneAssumption
  <1> QED BY <1>1, <1>2, <1>3, <1>4

-----------------------------------------------------------------------------
(* The steps.                                                              *)

LEMMA InitInv == Init => Inv
  <1> SUFFICES ASSUME Init PROVE Inv
    OBVIOUS
  <1>1. TypeOK
    BY SecondFactorAssumption DEF Init, TypeOK, Profile, Counters
  <1>2. Numbered /\ Unspent /\ LoginsRead /\ ListCurrent /\ Overtook
    BY DEF Init, Numbered, Unspent, CounterPast, LoginsRead, ListCurrent,
           Overtook, Checked
  <1> QED BY <1>1, <1>2 DEF Inv, Init, CodeOnce, RecoveryListExact

LEMMA CheckLoginKeeps ==
    ASSUME Inv, NEW l \in Logins, CheckLogin(l)
    PROVE  Inv'
  <1>1. PICK code \in IF profile.enabled THEN Matching ELSE {None} :
            logins' = [logins EXCEPT ![l] =
              [stage |-> "checked", code |-> code,
               recovery |-> profile.recovery, revision |-> profile.revision,
               overtaken |-> FALSE]]
    BY DEF CheckLogin
  <1>2. UNCHANGED <<required, counter, profile, secrets, spent, respent>>
    BY DEF CheckLogin
  <1>3. /\ code \in Codes \cup {None}
        /\ code = None => ~profile.enabled
        /\ code \in Totp => profile.enabled /\ code.secret = profile.secret
        /\ code \in Recovery => profile.enabled /\ code \in profile.recovery
        /\ code # None => code \notin spent
    BY MatchingUnspent, NoneAssumption DEF Codes
  <1>4. profile \in Profile /\ logins \in [Logins -> Login \cup {None}]
    BY DEF Inv, TypeOK
  <1>5. [stage |-> "checked", code |-> code,
         recovery |-> profile.recovery, revision |-> profile.revision,
         overtaken |-> FALSE] \in Login
    BY <1>3, <1>4 DEF Profile, Login
  <1>6. TypeOK'
    BY <1>1, <1>2, <1>5 DEF Inv, TypeOK
  <1>7. Numbered'
    <2>1. \A c \in profile.recovery : c \in Recovery
      BY <1>4 DEF Profile
    <2>2. code \in Totp => code.secret < Limit
      BY <1>3 DEF Inv, Numbered
    <2> QED BY <1>1, <1>2, <1>4, <2>1, <2>2 DEF Inv, Numbered, Limit
  <1>8. LoginsRead'
    BY <1>1, <1>2, <1>3, <1>4 DEF Inv, LoginsRead, Checked, Profile
  <1>9. Unspent'
    <2>1. \A k \in Logins : CounterPast(k)'
      BY <1>1, <1>2, <1>3, <1>4, NoneAssumption
         DEF Inv, Unspent, CounterPast, Checked, Codes
    <2> QED BY <1>1, <1>2, <1>4, <2>1 DEF Inv, Unspent, Checked
  <1>10. ListCurrent'
    BY <1>1, <1>2, <1>3, <1>4 DEF Inv, ListCurrent, Checked
  <1>11. Overtook'
    BY <1>1, <1>2, <1>3, <1>4 DEF Inv, Overtook
  <1> QED
    BY <1>2, <1>6, <1>7, <1>8, <1>9, <1>10, <1>11
       DEF Inv, CodeOnce, RecoveryListExact

LEMMA LoginWithoutKeeps ==
    ASSUME Inv, NEW l \in Logins, LoginWithout(l)
    PROVE  Inv'
  <1>1. /\ logins[l] \in Login
        /\ logins' = [logins EXCEPT ![l].stage = "open"]
        /\ UNCHANGED <<required, counter, profile, secrets, spent, respent>>
    BY DEF LoginWithout, OpenSession, Inv, TypeOK
  <1>2. /\ logins' \in [Logins -> Login \cup {None}]
        /\ \A k \in Logins \ {l} : logins'[k] = logins[k]
        /\ logins'[l].stage = "open" /\ logins'[l] \in Login
        /\ logins'[l].code = logins[l].code
        /\ logins'[l].recovery = logins[l].recovery
        /\ logins'[l].overtaken = logins[l].overtaken
    BY <1>1 DEF Inv, TypeOK, Login
  <1>3. TypeOK'
    BY <1>1, <1>2 DEF Inv, TypeOK
  <1>4. Numbered' /\ Overtook'
    BY <1>1, <1>2, NoneAssumption DEF Inv, Numbered, Limit, Overtook
  <1>5. LoginsRead' /\ Unspent' /\ ListCurrent'
    BY <1>1, <1>2
       DEF Inv, LoginsRead, Unspent, CounterPast, ListCurrent, Checked
  <1> QED
    BY <1>1, <1>3, <1>4, <1>5 DEF Inv, CodeOnce, RecoveryListExact

(* A session ends, or the code of a login is no longer good.               *)
LEMMA DropKeeps ==
    ASSUME Inv, NEW l \in Logins,
           logins' = [logins EXCEPT ![l] = None],
           UNCHANGED <<required, counter, profile, secrets, spent, respent>>
    PROVE  Inv'
  <1>1. TypeOK'
    BY DEF Inv, TypeOK
  <1>2. Numbered' /\ Overtook'
    BY DEF Inv, TypeOK, Numbered, Limit, Overtook
  <1>3. LoginsRead' /\ Unspent' /\ ListCurrent'
    BY DEF Inv, TypeOK, LoginsRead, Unspent, CounterPast, ListCurrent,
           Checked
  <1> QED
    BY <1>1, <1>2, <1>3 DEF Inv, CodeOnce, RecoveryListExact

(* A larger limit, as long as no code and no secret in force is added.     *)
LEMMA LimitGrows ==
    ASSUME Inv, Limit \in Nat, Limit' \in Nat, Limit <= Limit',
           profile'.pending # None => profile'.pending = secrets',
           profile'.enabled = profile.enabled,
           profile'.secret = profile.secret,
           profile'.recovery = profile.recovery,
           UNCHANGED <<logins, spent>>
    PROVE  Numbered'
  <1>1. profile'.secret # None => profile'.secret < Limit'
    BY SecondFactorAssumption DEF Inv, TypeOK, Numbered, Profile, SecretIds
  <1>2. \A c \in Totp : c \in spent' => c.secret < Limit'
    BY SecondFactorAssumption DEF Inv, Numbered, Totp, SecretIds
  <1>3. \A c \in Recovery : c \in spent' \cup profile'.recovery => c.set < Limit'
    BY SecondFactorAssumption DEF Inv, Numbered, Recovery, SecretIds
  <1>4. ASSUME NEW l \in Logins, logins[l] # None
        PROVE  /\ logins[l].code \in Totp => logins[l].code.secret < Limit'
               /\ \A c \in logins[l].recovery : c.set < Limit'
    <2>1. \A c \in logins[l].recovery : c \in Recovery
      BY <1>4 DEF Inv, TypeOK, Login
    <2> QED
      BY <1>4, <2>1, SecondFactorAssumption
         DEF Inv, Numbered, Totp, Recovery, SecretIds
  <1> QED BY <1>1, <1>2, <1>3, <1>4 DEF Inv, Numbered

LEMMA SetupKeeps ==
    ASSUME Inv, Setup
    PROVE  Inv'
  <1>1. /\ secrets' = secrets + 1 /\ secrets' \in SecretIds
        /\ secrets \in Nat
        /\ ~profile.enabled
        /\ profile' = [profile EXCEPT !.pending = secrets + 1]
        /\ UNCHANGED <<required, counter, logins, spent, respent>>
    BY SecondFactorAssumption DEF Setup, Inv, TypeOK, SecretIds
  <1>2. profile \in Profile
    BY DEF Inv, TypeOK
  <1>3. /\ profile' \in Profile
        /\ profile'.pending = secrets'
        /\ profile'.enabled = profile.enabled
        /\ profile'.secret = profile.secret
        /\ profile'.lastCounter = profile.lastCounter
        /\ profile'.recovery = profile.recovery
        /\ profile'.revision = profile.revision
    BY <1>1, <1>2, SecondFactorAssumption DEF Profile
  <1>4. TypeOK'
    BY <1>1, <1>3 DEF Inv, TypeOK, SecretIds
  <1>5. Limit <= Limit' /\ Limit \in Nat /\ Limit' \in Nat
    BY <1>1, <1>3 DEF Limit
  <1>6. Numbered'
    BY <1>1, <1>3, <1>5, LimitGrows
  <1>7. LoginsRead' /\ Unspent' /\ ListCurrent'
    BY <1>1, <1>3
       DEF Inv, LoginsRead, Unspent, CounterPast, ListCurrent, Checked
  <1> QED
    BY <1>1, <1>3, <1>4, <1>6, <1>7
       DEF Inv, CodeOnce, RecoveryListExact, Overtook

LEMMA PreparationExpiresKeeps ==
    ASSUME Inv, PreparationExpires
    PROVE  Inv'
  <1>1. /\ profile.pending # None
        /\ profile' = [profile EXCEPT !.pending = None]
        /\ UNCHANGED <<required, counter, secrets, logins, spent, respent>>
    BY DEF PreparationExpires
  <1>2. profile \in Profile /\ secrets \in Nat
    BY SecondFactorAssumption DEF Inv, TypeOK
  <1>3. /\ profile' \in Profile
        /\ profile'.pending = None
        /\ profile'.enabled = profile.enabled
        /\ profile'.secret = profile.secret
        /\ profile'.lastCounter = profile.lastCounter
        /\ profile'.recovery = profile.recovery
        /\ profile'.revision = profile.revision
    BY <1>1, <1>2 DEF Profile
  <1>4. TypeOK'
    BY <1>1, <1>3 DEF Inv, TypeOK
  <1>5. Limit < Limit' /\ Limit \in Nat /\ Limit' \in Nat
    BY <1>1, <1>2, <1>3 DEF Limit
  <1>6. Numbered'
    BY <1>1, <1>3, <1>5, LimitGrows
  <1>7. LoginsRead' /\ Unspent' /\ ListCurrent' /\ Overtook'
    BY <1>1, <1>3
       DEF Inv, LoginsRead, Unspent, CounterPast, ListCurrent, Overtook,
           Checked
  <1> QED
    BY <1>1, <1>3, <1>4, <1>6, <1>7 DEF Inv, CodeOnce, RecoveryListExact

(* A code is accepted: nothing that is left to be consumed was spent.      *)
LEMMA Accepted ==
    ASSUME Inv, NEW c \in Codes, NEW list \in SUBSET Recovery,
           c \in Totp => profile.lastCounter < c.period,
           c \in Recovery => list \cap spent = {}
    PROVE  LET p == Consumed(c, list)
           IN  /\ \A t \in Totp :
                      t \in spent \cup {c} /\ t.secret = profile.secret =>
                          t.period <= p.lastCounter
               /\ p.recovery \cap (spent \cup {c}) = {}
               /\ \A k \in Logins : Checked(k) =>
                      /\ logins[k].revision <= p.revision
                      /\ logins[k].revision = p.revision =>
                            logins[k].recovery \cap (spent \cup {c}) = {}
                      /\ /\ ~logins[k].overtaken
                         /\ logins[k].code \in Totp
                         /\ logins[k].code \in spent \cup {c}
                         => logins[k].code.period <= p.lastCounter
  <1> DEFINE p == Consumed(c, list)
  <1>1. profile \in Profile /\ p \in Profile
    BY ConsumedShape DEF Inv, TypeOK
  <1>2. CASE c \in Totp
    <2>1. /\ p.lastCounter = c.period
          /\ p.recovery = profile.recovery
          /\ p.revision = profile.revision
      BY <1>2, ConsumedShape DEF Inv
    <2>2. profile.lastCounter \in Int /\ \A t \in Totp : t.period \in Int
      BY <1>1, SecondFactorAssumption DEF Profile, Totp, Counters
    <2>3. \A t \in Totp : t \in spent \cup {c} /\ t.secret = profile.secret =>
              t.period <= c.period
      BY <1>2, <2>2 DEF Inv, Unspent
    <2>4. c \notin profile.recovery
      BY <1>1, <1>2, Kinds DEF Profile
    <2>5. \A k \in Logins : Checked(k) => c \notin logins[k].recovery
      BY <1>2, Kinds DEF Inv, TypeOK, Checked, Login
    <2>6. ASSUME NEW k \in Logins, Checked(k), ~logins[k].overtaken,
                 logins[k].code \in Totp, logins[k].code \in spent \cup {c}
          PROVE  logins[k].code.period <= c.period
      BY <1>2, <2>2, <2>6 DEF Inv, Unspent, CounterPast
    <2> QED BY <2>1, <2>3, <2>4, <2>5, <2>6 DEF Inv, Unspent, LoginsRead
  <1>3. CASE c \in Recovery
    <2>1. /\ p.lastCounter = profile.lastCounter
          /\ p.recovery = list \ {c}
          /\ p.revision = profile.revision + 1
      BY <1>3, ConsumedShape DEF Inv
    <2>2. \A t \in Totp : t # c
      BY <1>3, Kinds
    <2>3. \A k \in Logins : Checked(k) => logins[k].revision < p.revision
      BY <1>1, <2>1 DEF Inv, TypeOK, LoginsRead, Checked, Login, Profile
    <2>4. \A k \in Logins : Checked(k) =>
              logins[k].revision <= p.revision /\ logins[k].revision # p.revision
      BY <1>1, <2>3 DEF Inv, TypeOK, Checked, Login, Profile
    <2> QED BY <1>3, <2>1, <2>2, <2>4 DEF Inv, Unspent, CounterPast
  <1> QED BY <1>2, <1>3 DEF Codes

LEMMA LoginWithKeeps ==
    ASSUME Inv, NEW l \in Logins, LoginWith(l)
    PROVE  Inv'
  <1> DEFINE c == logins[l].code
             list == logins[l].recovery
  <1>1. /\ Checked(l) /\ c \in Codes /\ list \in SUBSET Recovery
        /\ profile \in Profile
        /\ UNCHANGED <<required, counter, secrets>>
    BY DEF LoginWith, Checked, Inv, TypeOK, Login
  <1>2. CASE ~Consumable(c, logins[l].revision)
    BY <1>1, <1>2, DropKeeps DEF LoginWith
  <1>3. CASE Consumable(c, logins[l].revision)
    <2> DEFINE p == Consumed(c, list)
    <2>1. /\ profile' = p
          /\ logins[l].overtaken => SpendOvertaken(c)
          /\ ~logins[l].overtaken => Spend(c)
          /\ logins' = [logins EXCEPT ![l].stage = "open"]
      BY <1>3 DEF LoginWith, OpenSession
    <2>2. /\ c \in Totp => profile.lastCounter < c.period
          /\ c \in Recovery => /\ profile.revision = logins[l].revision
                               /\ c \in list
                               /\ list \cap spent = {}
      BY <1>1, <1>3, Kinds DEF Consumable, IsTotp, Inv, LoginsRead, Unspent
    <2>3. c \in Recovery \/ ~logins[l].overtaken => c \notin spent
      <3>1. CASE c \in Totp
        <4>1. c.period \in Int /\ profile.lastCounter \in Int
          BY <1>1, <3>1, SecondFactorAssumption DEF Profile, Totp, Counters
        <4> QED BY <1>1, <2>2, <3>1, <4>1, Kinds DEF Inv, Unspent, CounterPast
      <3>2. CASE c \in Recovery
        BY <2>2, <3>2
      <3> QED BY <1>1, <3>1, <3>2 DEF Codes
    <2>4. spent' = spent \cup {c} /\ respent' = {}
      <3>1. ~IsTotp(c) => c \in Recovery
        BY <1>1, Kinds
      <3> QED BY <1>1, <2>1, <2>3, <3>1, SpendNew DEF Inv
    <2>5. /\ p \in Profile
          /\ p.enabled = profile.enabled
          /\ p.secret = profile.secret
          /\ p.pending = profile.pending
          /\ c \in Totp => /\ p.recovery = profile.recovery
                           /\ p.revision = profile.revision
          /\ c \in Recovery => /\ p.recovery = list \ {c}
                               /\ p.revision = profile.revision + 1
      BY <1>1, ConsumedShape DEF Inv
    <2>6. /\ logins' \in [Logins -> Login \cup {None}]
          /\ \A k \in Logins \ {l} : logins'[k] = logins[k]
          /\ logins'[l] # None /\ logins[l] # None
          /\ logins'[l].stage = "open"
          /\ logins'[l].code = c
          /\ logins'[l].recovery = list
      BY <1>1, <2>1, NoneAssumption DEF Inv, TypeOK, Login, Checked
    <2>7. \A k \in Logins : Checked(k)' =>
              Checked(k) /\ logins'[k] = logins[k] /\ k # l
      BY <2>6 DEF Checked
    <2> HIDE DEF p, c, list
    <2>8. TypeOK'
      BY <1>1, <2>1, <2>4, <2>5, <2>6 DEF Inv, TypeOK
    <2>9. Numbered'
      <3>1. Limit' = Limit
        BY <1>1, <2>1, <2>5 DEF Limit
      <3>2. c \in Totp => c.secret < Limit
        BY <2>6 DEF Inv, Numbered, c
      <3>3. \A r \in list : r.set < Limit
        BY <2>6 DEF Inv, Numbered, list
      <3>4. \A r \in Recovery : r \in spent' \cup profile'.recovery => r.set < Limit
        BY <1>1, <2>1, <2>2, <2>4, <2>5, <3>3, Kinds DEF Inv, Numbered, Codes
      <3>5. \A k \in Logins : logins'[k] # None =>
              /\ logins'[k].code \in Totp => logins'[k].code.secret < Limit
              /\ \A r \in logins'[k].recovery : r.set < Limit
        BY <2>6, <3>2, <3>3 DEF Inv, Numbered
      <3> QED
        BY <1>1, <2>1, <2>4, <2>5, <3>1, <3>2, <3>4, <3>5 DEF Inv, Numbered
    <2>10. LoginsRead' /\ Unspent'
      BY <1>1, <2>1, <2>2, <2>4, <2>5, <2>7, Accepted
         DEF Inv, LoginsRead, Unspent, CounterPast, p
    <2>11. ListCurrent'
      <3>1. CASE c \in Totp
        BY <1>1, <2>1, <2>5, <2>7, <3>1 DEF Inv, ListCurrent
      <3>2. CASE c \in Recovery
        <4>1. \A k \in Logins : Checked(k) => logins[k].revision # p.revision
          BY <1>1, <2>5, <3>2 DEF Inv, TypeOK, LoginsRead, Checked, Login, Profile
        <4> QED BY <2>1, <2>7, <4>1 DEF ListCurrent
      <3> QED BY <1>1, <3>1, <3>2 DEF Codes
    <2>12. Overtook'
      BY <1>1, <2>1, <2>5, <2>6, NoneAssumption DEF Inv, Overtook
    <2>13. RecoveryListExact'
      <3>1. CASE c \in Totp
        BY <1>1, <2>1, <2>4, <2>5, <3>1, Kinds
           DEF Inv, RecoveryListExact, RecoverySet, Profile
      <3>2. CASE c \in Recovery
        <4>1. required => list = profile.recovery
          BY <1>1, <2>2, <3>2 DEF Inv, ListCurrent, c, list
        <4> QED
          BY <1>1, <2>1, <2>4, <2>5, <3>2, <4>1 DEF Inv, RecoveryListExact
      <3> QED BY <1>1, <3>1, <3>2 DEF Codes
    <2> QED
      BY <2>4, <2>8, <2>9, <2>10, <2>11, <2>12, <2>13 DEF Inv, CodeOnce
  <1> QED BY <1>2, <1>3

(* The factor is withdrawn on a proof: the code was not accepted before,   *)
(* and logins under way find no list in force they could have read.        *)
LEMMA WithdrawalKeeps ==
    ASSUME Inv, NEW c \in Matching, Proven(c),
           profile' \in Profile,
           ~profile'.enabled,
           profile'.secret = None,
           profile'.pending \in {None, profile.pending},
           profile'.recovery = {},
           profile'.revision \in {Consumed(c, profile.recovery).revision,
                                  Consumed(c, profile.recovery).revision + 1},
           required => profile'.revision
                         = Consumed(c, profile.recovery).revision + 1,
           logins' \in [Logins -> Login \cup {None}],
           \A k \in Logins : logins'[k] # None =>
               /\ logins[k] # None
               /\ logins'[k].stage = logins[k].stage
               /\ logins'[k].code = logins[k].code
               /\ logins'[k].recovery = logins[k].recovery
               /\ logins'[k].revision = logins[k].revision,
           \A k \in Logins : Checked(k)' =>
               \/ logins'[k].overtaken
               \/ /\ logins'[k].overtaken = logins[k].overtaken
                  /\ profile'.lastCounter
                        = Consumed(c, profile.recovery).lastCounter,
           UNCHANGED <<required, counter, secrets>>
    PROVE  Inv'
  <1> DEFINE p == Consumed(c, profile.recovery)
  <1>1. /\ c \in Codes
        /\ c \notin spent
        /\ c \in Totp => c.secret = profile.secret
        /\ c \in Totp => profile.lastCounter < c.period
        /\ c \in Recovery => c \in profile.recovery
    <2>1. /\ c \in Codes /\ c \notin spent
          /\ c \in Totp => c.secret = profile.secret
          /\ c \in Totp => c.period > profile.lastCounter
          /\ c \in Recovery => c \in profile.recovery
      BY MatchingUnspent DEF Proven
    <2>2. c \in Totp => c.period \in Int
      BY SecondFactorAssumption DEF Totp, Counters
    <2>3. profile.lastCounter \in Int
      BY SecondFactorAssumption DEF Inv, TypeOK, Profile, Counters
    <2> QED BY <2>1, <2>2, <2>3
  <1>2. spent' = spent \cup {c} /\ respent' = {}
    BY <1>1, SpendNew DEF Proven, Inv
  <1>3. profile.recovery \in SUBSET Recovery /\ profile.revision \in Nat
    BY DEF Inv, TypeOK, Profile
  <1>4. p.revision \in {profile.revision, profile.revision + 1}
    BY <1>1, <1>3, ConsumedShape DEF Inv, Codes
  <1>5. \A k \in Logins : Checked(k) =>
            /\ logins[k].revision \in Nat
            /\ logins[k].revision <= p.revision
            /\ logins[k].revision = p.revision =>
                  logins[k].recovery \cap (spent \cup {c}) = {}
            /\ /\ ~logins[k].overtaken
               /\ logins[k].code \in Totp
               /\ logins[k].code \in spent \cup {c}
               => logins[k].code.period <= p.lastCounter
    <2>1. \A k \in Logins : Checked(k) => logins[k].revision \in Nat
      BY DEF Inv, TypeOK, Login, Checked
    <2> QED BY <1>1, <1>3, <2>1, Accepted DEF Inv, Unspent
  <1> HIDE DEF p
  <1>6. p.revision \in Nat
    BY <1>3, <1>4
  <1>7. /\ logins' \in [Logins -> Login \cup {None}]
        /\ \A k \in Logins : logins'[k] # None =>
               /\ logins[k] # None
               /\ logins'[k].code = logins[k].code
               /\ logins'[k].recovery = logins[k].recovery
    OBVIOUS
  <1>8. \A k \in Logins : Checked(k)' =>
            /\ Checked(k)
            /\ logins'[k].code = logins[k].code
            /\ logins'[k].recovery = logins[k].recovery
            /\ logins'[k].revision = logins[k].revision
            /\ \/ logins'[k].overtaken
               \/ /\ logins'[k].overtaken = logins[k].overtaken
                  /\ profile'.lastCounter = p.lastCounter
    BY DEF Checked, p
  <1>9. TypeOK'
    BY <1>1, <1>2, <1>7 DEF Inv, TypeOK
  <1>10. Numbered'
    <2>1. /\ secrets \in Nat
          /\ Limit \in Nat /\ Limit' \in Nat /\ Limit <= Limit'
          /\ profile'.pending # None => profile'.pending = secrets
      BY SecondFactorAssumption DEF Inv, TypeOK, Numbered, Limit
    <2>2. c \in Totp => c.secret < Limit
      BY <1>1, SecondFactorAssumption DEF Inv, Numbered, Totp, SecretIds
    <2>3. \A t \in Totp : t \in spent' => t.secret < Limit'
      BY <1>2, <2>1, <2>2, SecondFactorAssumption
         DEF Inv, Numbered, Totp, SecretIds
    <2>4. \A r \in Recovery : r \in spent' \cup profile'.recovery => r.set < Limit'
      BY <1>1, <1>2, <2>1, SecondFactorAssumption
         DEF Inv, Numbered, Recovery, SecretIds
    <2>5. ASSUME NEW k \in Logins, logins'[k] # None
          PROVE  /\ logins'[k].code \in Totp => logins'[k].code.secret < Limit'
                 /\ \A r \in logins'[k].recovery : r.set < Limit'
      <3>1. /\ logins[k] # None
            /\ logins'[k].code = logins[k].code
            /\ logins'[k].recovery = logins[k].recovery
        BY <1>7, <2>5
      <3>2. \A r \in logins[k].recovery : r \in Recovery
        BY <3>1 DEF Inv, TypeOK, Login
      <3> QED
        BY <2>1, <3>1, <3>2, SecondFactorAssumption
           DEF Inv, Numbered, Totp, Recovery, SecretIds
    <2> QED BY <2>1, <2>3, <2>4, <2>5 DEF Numbered
  <1>11. LoginsRead'
    BY <1>5, <1>6, <1>8 DEF Inv, LoginsRead, p
  <1>12. Unspent'
    <2>1. \A t \in Totp : t.secret # None
      BY SecondFactorAssumption DEF Totp, SecretIds
    <2>2. \A k \in Logins : Checked(k)' /\ logins'[k].revision = profile'.revision
            => logins'[k].recovery \cap spent' = {}
      BY <1>2, <1>5, <1>6, <1>8 DEF p
    <2>3. \A k \in Logins : CounterPast(k)'
      BY <1>2, <1>5, <1>8 DEF CounterPast
    <2> QED BY <2>1, <2>2, <2>3 DEF Unspent
  <1>13. ListCurrent'
    <2>1. required => \A k \in Logins :
              Checked(k)' => logins'[k].revision # profile'.revision
      BY <1>5, <1>6, <1>8 DEF p
    <2> QED BY <2>1 DEF ListCurrent
  <1> QED
    BY <1>2, <1>9, <1>10, <1>11, <1>12, <1>13
       DEF Inv, CodeOnce, RecoveryListExact, Overtook

LEMMA DisableKeeps == ASSUME Inv, Disable PROVE Inv'
  <1>1. PICK c \in Matching :
            /\ Proven(c)
            /\ profile' = [Consumed(c, profile.recovery) EXCEPT
                              !.enabled = FALSE,
                              !.secret = None,
                              !.recovery = {}]
    BY DEF Disable
  <1>2. /\ Consumed(c, profile.recovery) \in Profile
        /\ Consumed(c, profile.recovery).pending = profile.pending
    BY <1>1, MatchingUnspent, ConsumedShape DEF Proven, Inv, TypeOK, Profile
  <1>3. /\ profile' \in Profile
        /\ ~profile'.enabled
        /\ profile'.secret = None
        /\ profile'.pending = profile.pending
        /\ profile'.recovery = {}
        /\ profile'.revision = Consumed(c, profile.recovery).revision
        /\ profile'.lastCounter = Consumed(c, profile.recovery).lastCounter
    BY <1>1, <1>2 DEF Profile
  <1>4. /\ logins' \in [Logins -> Login \cup {None}]
        /\ \A k \in Logins : logins'[k] \in {None, logins[k]}
    <2>1. logins' = WithoutSessions({})
      BY DEF Disable
    <2> QED BY <2>1, DeletedSessions DEF Inv
  <1> QED BY <1>1, <1>3, <1>4, WithdrawalKeeps DEF Disable, Checked

LEMMA ResetKeeps == ASSUME Inv, NEW l \in Logins, Reset(l) PROVE Inv'
  <1>1. PICK c \in Matching :
            /\ Proven(c)
            /\ profile' = Withdrawn(Consumed(c, profile.recovery))
    BY DEF Reset
  <1>2. Consumed(c, profile.recovery) \in Profile
    BY <1>1, MatchingUnspent, ConsumedShape DEF Proven, Inv, TypeOK, Profile
  <1>3. /\ profile' \in Profile
        /\ ~profile'.enabled
        /\ profile'.secret = None
        /\ profile'.pending = None
        /\ profile'.recovery = {}
        /\ profile'.revision = Consumed(c, profile.recovery).revision + 1
    <2> DEFINE p == Consumed(c, profile.recovery)
    <2>1. -1 \in Counters
      BY SecondFactorAssumption DEF Counters
    <2>2. p \in Profile /\ p.revision + 1 \in Nat
      BY <1>2 DEF Profile
    <2>3. profile' = [p EXCEPT !.enabled = FALSE, !.secret = None,
                               !.pending = None, !.lastCounter = -1,
                               !.recovery = {}, !.revision = p.revision + 1]
      BY <1>1, <2>2 DEF Withdrawn, Profile
    <2> HIDE DEF p
    <2>4. profile' \in Profile
      BY <2>1, <2>2, <2>3 DEF Profile
    <2> QED BY <2>2, <2>3, <2>4 DEF Profile, p
  <1>4. PICK ls : ls = WithoutSessions({l})
    OBVIOUS
  <1>5. /\ ls \in [Logins -> Login \cup {None}]
        /\ \A k \in Logins : ls[k] \in {None, logins[k]}
    BY <1>4, DeletedSessions DEF Inv
  <1>6. logins' = Overtaken(ls)
    BY <1>4 DEF Reset
  <1>7. /\ logins' \in [Logins -> Login \cup {None}]
        /\ \A k \in Logins : logins'[k] # None =>
               /\ logins[k] # None
               /\ logins'[k].stage = logins[k].stage
               /\ logins'[k].code = logins[k].code
               /\ logins'[k].recovery = logins[k].recovery
               /\ logins'[k].revision = logins[k].revision
        /\ \A k \in Logins : logins'[k] # None /\ logins'[k].stage = "checked"
               => logins'[k].overtaken
    BY <1>5, <1>6, OvertakenLogins
  <1> QED BY <1>1, <1>3, <1>7, WithdrawalKeeps DEF Reset, Checked

LEMMA EnableKeeps == ASSUME Inv, Enable PROVE Inv'
  <1>1. PICK c \in Window(profile.pending) :
            /\ profile' = [profile EXCEPT
                  !.enabled = TRUE,
                  !.secret = profile.pending,
                  !.pending = None,
                  !.lastCounter = c.period,
                  !.recovery = RecoverySet(profile.pending)]
            /\ Spend(c)
    BY DEF Enable
  <1>2. /\ ~profile.enabled /\ profile.pending # None
        /\ profile.pending = secrets /\ secrets \in SecretIds
        /\ logins' = Overtaken(WithoutSessions({}))
        /\ UNCHANGED <<required, counter, secrets>>
    BY DEF Enable, AfterEnabling, Inv, TypeOK, Numbered, Profile
  <1>3. c \in Totp /\ c.secret = secrets /\ c.period \in Counters /\ c \notin Recovery
    BY <1>1, <1>2, InWindow, Kinds DEF Inv
  <1>16. spent' = spent \cup {c} /\ respent' = {}
    <2>1. secrets < secrets \/ c \notin spent
      BY <1>2, <1>3 DEF Inv, Numbered, Limit
    <2>2. secrets \in Nat
      BY SecondFactorAssumption DEF Inv, TypeOK
    <2>3. c \notin spent
      BY <2>1, <2>2
    <2> QED BY <1>1, <1>3, <2>3, SpendNew DEF Inv, Codes
  <1>4. RecoverySet(secrets) \subseteq Recovery
        /\ \A r \in RecoverySet(secrets) : r.set = secrets
    BY <1>2 DEF RecoverySet, Recovery
  <1>5. /\ profile' \in Profile
        /\ profile'.enabled
        /\ profile'.secret = secrets
        /\ profile'.pending = None
        /\ profile'.lastCounter = c.period
        /\ profile'.recovery = RecoverySet(secrets)
        /\ profile'.revision = profile.revision
    BY <1>1, <1>2, <1>3, <1>4 DEF Inv, TypeOK, Profile
  <1>6. \A k \in Logins : logins'[k] # None =>
            /\ Checked(k)
            /\ logins'[k] \in Login
            /\ logins'[k].code = logins[k].code
            /\ logins'[k].recovery = logins[k].recovery
            /\ logins'[k].revision = logins[k].revision
            /\ logins'[k].overtaken
    <2> SUFFICES ASSUME NEW k \in Logins, logins'[k] # None
                 PROVE  /\ Checked(k)
                        /\ logins'[k] \in Login
                        /\ logins'[k].code = logins[k].code
                        /\ logins'[k].recovery = logins[k].recovery
                        /\ logins'[k].revision = logins[k].revision
                        /\ logins'[k].overtaken
      OBVIOUS
    <2>1. /\ logins[k] # None /\ WithoutSessions({})[k] = logins[k]
          /\ logins[k] \in Login /\ k \notin Sessions
      BY <1>2 DEF Overtaken, WithoutSessions, Inv, TypeOK
    <2>2. Checked(k)
      BY <2>1 DEF Checked, Sessions, Login
    <2> QED BY <1>2, <2>1, <2>2 DEF Overtaken, Checked, Login
  <1>7. TypeOK'
    <2>1. logins' \in [Logins -> Login \cup {None}]
      BY <1>2, <1>6 DEF Overtaken
    <2> QED BY <1>16, <1>2, <1>3, <1>5, <2>1 DEF Inv, TypeOK, Codes
  <1>8. /\ secrets \in Nat
        /\ Limit = secrets /\ Limit' = secrets + 1
    BY <1>2, <1>5 DEF Limit, Inv, TypeOK
  <1>9. Numbered'
    <2>1. \A t \in Totp : t \in spent' => t.secret < Limit'
      BY <1>16, <1>3, <1>8, SecondFactorAssumption
         DEF Inv, Numbered, Totp, SecretIds
    <2>2. \A r \in Recovery : r \in spent' \cup profile'.recovery => r.set < Limit'
      BY <1>16, <1>3, <1>4, <1>5, <1>8, SecondFactorAssumption
         DEF Inv, Numbered, Recovery, SecretIds
    <2>3. ASSUME NEW k \in Logins, logins'[k] # None
          PROVE  /\ logins'[k].code \in Totp => logins'[k].code.secret < Limit'
                 /\ \A r \in logins'[k].recovery : r.set < Limit'
      <3>1. \A r \in logins[k].recovery : r \in Recovery
        BY <1>6, <2>3 DEF Inv, TypeOK, Login, Checked
      <3> QED
        BY <1>6, <1>8, <2>3, <3>1, SecondFactorAssumption
           DEF Inv, Numbered, Totp, Recovery, SecretIds, Checked
    <2>4. profile'.secret # None /\ profile'.secret < Limit'
      BY <1>5, <1>8, SecondFactorAssumption
    <2> QED BY <1>5, <2>1, <2>2, <2>3, <2>4 DEF Numbered
  <1>10. LoginsRead'
    BY <1>5, <1>6 DEF Inv, LoginsRead, Checked
  <1>11. \A r \in RecoverySet(secrets) : r \notin spent'
    BY <1>16, <1>3, <1>4, <1>8 DEF Inv, Numbered
  <1>12. Unspent'
    <2>1. \A t \in Totp : t \in spent' /\ t.secret = profile'.secret =>
              t.period <= profile'.lastCounter
      <3>1. \A t \in Totp : t \in spent => t.secret # secrets
        BY <1>8 DEF Inv, Numbered
      <3>2. c.period <= c.period
        BY <1>3, SecondFactorAssumption DEF Counters
      <3> QED BY <1>16, <1>5, <3>1, <3>2
    <2>2. ASSUME NEW k \in Logins, Checked(k)',
                 logins'[k].revision = profile'.revision
          PROVE  logins'[k].recovery \cap spent' = {}
      <3>1. Checked(k) /\ logins[k].revision = profile.revision
            /\ logins'[k].recovery = logins[k].recovery
        BY <1>5, <1>6, <2>2 DEF Checked
      <3>2. c \notin logins[k].recovery
        BY <1>3, <3>1 DEF Inv, TypeOK, Login, Checked
      <3> QED BY <1>16, <3>1, <3>2 DEF Inv, Unspent
    <2>3. \A k \in Logins : Checked(k)' => logins'[k].overtaken
      BY <1>6 DEF Checked
    <2> QED BY <1>5, <1>11, <2>1, <2>2, <2>3 DEF Unspent, CounterPast
  <1>13. ListCurrent'
    BY <1>2, <1>5, <1>6 DEF Inv, ListCurrent, Checked
  <1>14. Overtook'
    BY <1>6 DEF Overtook
  <1>15. RecoveryListExact'
    BY <1>5, <1>11 DEF RecoveryListExact
  <1> QED
    BY <1>16, <1>7, <1>9, <1>10, <1>12, <1>13, <1>14, <1>15 DEF Inv, CodeOnce

LEMMA TickKeeps == ASSUME Inv, Tick PROVE Inv'
  <1>1. TypeOK'
    BY SecondFactorAssumption DEF Tick, Inv, TypeOK
  <1>2. Numbered' /\ LoginsRead' /\ Unspent' /\ ListCurrent' /\ Overtook'
    BY DEF Tick, Inv, Numbered, Limit, LoginsRead, Unspent, CounterPast,
           ListCurrent, Overtook, Checked
  <1> QED BY <1>1, <1>2 DEF Tick, Inv, CodeOnce, RecoveryListExact

-----------------------------------------------------------------------------
(* The theorems.                                                           *)

(* What holds of the profile and of all that was read from it.             *)
THEOREM SecondFactorInvariant == Spec => []Inv
  <1>1. ASSUME Inv, [Next]_vars
        PROVE  Inv'
    <2>1. CASE UNCHANGED vars
      BY <1>1, <2>1
         DEF vars, Inv, TypeOK, Numbered, Limit, LoginsRead, Unspent,
             CounterPast, ListCurrent, Overtook, Checked, CodeOnce, RecoveryListExact
    <2>2. ASSUME NEW l \in Logins, CheckLogin(l) PROVE Inv'
      BY <1>1, <2>2, CheckLoginKeeps
    <2>3. ASSUME NEW l \in Logins, LoginWithout(l) PROVE Inv'
      BY <1>1, <2>3, LoginWithoutKeeps
    <2>4. ASSUME NEW l \in Logins, LoginWith(l) PROVE Inv'
      BY <1>1, <2>4, LoginWithKeeps
    <2>5. ASSUME NEW l \in Logins, Logout(l) PROVE Inv'
      BY <1>1, <2>5, DropKeeps DEF Logout
    <2>6. ASSUME NEW l \in Logins, Reset(l) PROVE Inv'
      BY <1>1, <2>6, ResetKeeps
    <2>7. CASE Setup
      BY <1>1, <2>7, SetupKeeps
    <2>8. CASE PreparationExpires
      BY <1>1, <2>8, PreparationExpiresKeeps
    <2>9. CASE Enable
      BY <1>1, <2>9, EnableKeeps
    <2>10. CASE Disable
      BY <1>1, <2>10, DisableKeeps
    <2>11. CASE Tick
      BY <1>1, <2>11, TickKeeps
    <2> QED
      BY <1>1, <2>1, <2>2, <2>3, <2>4, <2>5, <2>6, <2>7, <2>8, <2>9,
         <2>10, <2>11 DEF Next
  <1> QED BY <1>1, InitInv, PTL DEF Spec

(* No code is accepted twice, in whatever order logins, changes of the     *)
(* factor and their commits come, but for a TOTP code of a login that read *)
(* the profile before a reset or a new enabling and committed after it     *)
(* (consume_mfa compares with the last_counter it then finds).             *)
THEOREM NoCodeTwice == Spec => []CodeOnce
  <1>1. Inv => CodeOnce
    BY DEF Inv
  <1> QED BY <1>1, SecondFactorInvariant, PTL

(* Where MFA is required, no recovery code is lost and none comes back.    *)
THEOREM ListIsExact == Spec => []RecoveryListExact
  <1>1. Inv => RecoveryListExact
    BY DEF Inv
  <1> QED BY <1>1, SecondFactorInvariant, PTL

(* No session without the factor in force but of a login it overtook.      *)
THEOREM FactorIsAsked == Spec => []SessionsHaveFactor
  <1>1. Inv => SessionsHaveFactor
    BY DEF Inv, Overtook, SessionsHaveFactor, Sessions
  <1> QED BY <1>1, SecondFactorInvariant, PTL
=============================================================================
