--------------------------- MODULE MCContinuation ---------------------------
(***************************************************************************)
(* A match and what it costs to go on with it: the continuations of a user *)
(* with two matches, the advertisements that pay for some of them, the     *)
(* conversation itself and the live stream it is followed on.  What they   *)
(* know of each other is an action of each (a continuation in the          *)
(* conversation, a credit in the wallet), so a behaviour follows one of    *)
(* them and the others stay where they started.  In the conversation,      *)
(* reading, closing, revealing and reporting are explored separately, each *)
(* with the events that can disturb it.                                    *)
(***************************************************************************)
EXTENDS Continuation, Rewards, Conversation

CONSTANTS m1, m2, LastMatch, a, b, BROADCAST_CAPACITY, REDIS_RELAY_CAPACITY, MaxEvents

MCParticipants == [m \in Matches |-> IF m = m1 THEN {1, 2} ELSE {1, 3}]

MCOwner == [i \in Intents |-> CHOOSE u \in Owners : TRUE]

MCScenarios == { {"send", "list", "read_one", "read_through"},
                 {"send", "end", "block", "time"},
                 {"reveal", "time"},
                 {"report", "end", "time"} }

VARIABLES
    focus,
    Redis, relay, subscribed, sent, stream, session, expired, checking, published

Stream == INSTANCE Stream WITH Users <- <<a, b>>, Viewer <- a

streamVars == <<Redis, relay, subscribed, sent, stream, session, expired, checking, published>>
allVars == <<focus, vars, rewardVars, conversationVars, streamVars>>

\* One initial state for each component that is not followed.
MCInit ==
    /\ focus \in {"continuation", "rewards", "conversation", "stream"}
    /\ Init /\ RewardInit /\ ConversationInit /\ Stream!Init
    /\ focus # "continuation" => premium = {} /\ \A x \in Users \X Weeks : used[x] = 0
    /\ focus # "conversation" => "list" \in scenario
    /\ focus # "stream" => ~Redis

\* A match that begins later than LastMatch does not reach its deadlines
\* before the horizon.
MatchedEarly ==
    \A m \in Matches : status[m] = "none" /\ status'[m] # "none" => clock <= LastMatch

\* One message is enough to be purged; two are stored where they are read.
OneToPurge == "end" \in scenario => Len(conv'.messages) <= 1

MCNext ==
    /\ UNCHANGED focus
    /\ \/ /\ focus = "continuation" /\ Next /\ MatchedEarly
          /\ UNCHANGED <<rewardVars, conversationVars, streamVars>>
       \/ /\ focus = "rewards" /\ RewardNext
          /\ UNCHANGED <<vars, conversationVars, streamVars>>
       \/ /\ focus = "conversation" /\ ConversationNext /\ OneToPurge
          /\ UNCHANGED <<vars, rewardVars, streamVars>>
       \/ /\ focus = "stream" /\ Stream!Next
          /\ UNCHANGED <<vars, rewardVars, conversationVars>>

\* The conversation that is not followed has no timer running.
MCSpec == MCInit /\ [][MCNext]_allVars /\ ConversationFairness

\* An open stream has handed over every event of its user broadcast since it
\* was opened, or is disconnected for lagging (sse.rs, event_stream).
NoGap == Stream!NoGap
=============================================================================
