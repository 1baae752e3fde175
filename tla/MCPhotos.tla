------------------------------ MODULE MCPhotos ------------------------------
(***************************************************************************)
(* Two deliveries to a service outside: the photos of an account with the  *)
(* object store, and a notification with the push provider.  They share no *)
(* state, so a behaviour follows one of them and the other stays where it  *)
(* started, with none of its fair actions enabled.  No symmetry: the run   *)
(* checks liveness.                                                        *)
(***************************************************************************)
EXTENDS Photos

CONSTANTS Devices, Mine, Others, Kinds, None, MaxFaults, MaxChanges

VARIABLES
    focus,
    kind, note, device, live, usable, wanted, muted, fact, opened, job, oauth, faults, changes

Push == INSTANCE Push

pushVars == <<kind, note, device, live, usable, wanted, muted, fact, opened, job, oauth, faults,
              changes>>
allVars == <<focus, vars, pushVars>>

\* Each session of the user has a device; which has which makes no difference.
BothMine == CHOOSE f \in [Devices -> Mine] : {f[d] : d \in Devices} = Mine

MCInit ==
    /\ Init /\ Push!Init
    /\ \/ focus = "photos" /\ kind = "match" /\ device = [d \in Devices |-> None]
       \/ focus = "push" /\ device = BothMine

MCNext ==
    /\ UNCHANGED focus
    /\ \/ focus = "photos" /\ Next /\ UNCHANGED pushVars
       \/ focus = "push" /\ Push!Next /\ UNCHANGED vars

MCSpec == MCInit /\ [][MCNext]_allVars /\ Fairness /\ Push!Fairness

\* Every push is sent or acknowledged as no longer deliverable, although the
\* provider may refuse a cached OAuth token (push.rs, send_inner), and it is
\* made only for a device that is still of the session it was meant for and
\* for a notification that is still wanted (delivery/pg.rs).
PushesSettle == Push!PushesSettle /\ [][focus = "push" => Push!StillWanted']_allVars
=============================================================================
