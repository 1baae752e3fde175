----------------------------- MODULE MCSessions -----------------------------
(***************************************************************************)
(* The sessions of an account, and the way to its first one: Registration  *)
(* ends where Sessions starts (create), and the account rows both know are *)
(* moved by the same operations.  Profiles is what the account may then    *)
(* store; of a session it needs only that its request was authenticated.   *)
(* So a behaviour follows one of the three while the others stay in an     *)
(* initial state, and within Profiles either the consents or, with all of  *)
(* them granted, the moderated texts.  Tokens are interchangeable: no      *)
(* definition chooses or orders them.                                      *)
(***************************************************************************)
EXTENDS Sessions, Profiles, Registration, TLC

CONSTANT MaxSent     \* bound: different requests sent with refresh tokens

ASSUME ProfilesAssumption ==
    Clean \subseteq Texts /\ {MaxLegal, MaxVersion} \subseteq Nat \ {0} /\ "bio" \notin Questions

VARIABLE focus

allVars == <<focus, vars, registrationVars, profileVars>>

NobodyRegisters == ~reviewed /\ banned = {} /\ \A u \in Users : user_account[u] = "none"

AllGranted ==
    /\ latest = [t \in ConsentType |-> [granted |-> TRUE, version |-> 1]]
    /\ live = [t \in ConsentType |-> {1}]
NoneGranted ==
    /\ latest = [t \in ConsentType |-> NoRow]
    /\ live = [t \in ConsentType |-> {}]

MCInit ==
    /\ Init /\ RegistrationInit /\ EmptyProfile
    /\ focus \in {"registration", "sessions", "consents", "texts"}
    /\ focus # "registration" => NobodyRegisters
    /\ IF focus = "texts" THEN AllGranted ELSE NoneGranted

MCNext ==
    /\ UNCHANGED focus
    /\ \/ /\ focus = "sessions" /\ Next /\ Cardinality(requests') <= MaxSent
          /\ UNCHANGED <<registrationVars, profileVars>>
       \/ focus = "registration" /\ RegistrationNext /\ UNCHANGED <<vars, profileVars>>
       \/ /\ focus = "consents"
          /\ ConsentNext \/ \E w \in BOOLEAN : put_profile(w, "none")
          /\ UNCHANGED <<vars, registrationVars>>
       \/ /\ focus = "texts" /\ (Authenticate \/ ContentNext)
          /\ UNCHANGED <<vars, registrationVars>>

MCSpec == MCInit /\ [][MCNext]_allVars

SessionSymmetry == Permutations(Tokens)
=============================================================================
