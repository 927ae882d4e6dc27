------------------------------ MODULE Residual ------------------------------
(***************************************************************************)
(* One forward of c/colibri.c over its layers: layers_forward_rows, with   *)
(* the residual on the host or resident on a device (PIPE2),               *)
(* pipe_layer_sparse with its snapshot, and layer_forward_rows.            *)
(*                                                                         *)
(* A residual is represented by what was added to it: the layers that are  *)
(* complete, and the parts of the next one.  Downloads and the restoring   *)
(* copy are not checked by the code and are taken to succeed; every other  *)
(* device call may fail.                                                   *)
(***************************************************************************)
EXTENDS Naturals, Sequences, FiniteSets

CONSTANTS Homes,    \* for each layer its device, or Host when it is not eligible
          Host,
          MaxForwards \* bound of the model

ASSUME ResidualAssumption ==
    /\ Len(Homes) \in Nat \ {0} /\ DOMAIN Homes = 1..Len(Homes)
    /\ MaxForwards \in Nat

Devices == {Homes[i] : i \in DOMAIN Homes} \ {Host}
Parts == {"attention", "shared", "resident", "routed"}
X(n) == [done |-> n, parts |-> {}]
Junk == [done |-> 0, parts |-> {"junk"}]

VARIABLES
    layer,     \* the layer being computed
    spot,      \* where its computation is
    place,     \* x_dev_on, or Host
    x,         \* the residual of the host, and scratch slot 15 of each device
    snap,      \* scratch slot 14 of each device
    partials,  \* g_pres_nused > 0: partial sums in flight to a device
    early,     \* a layer was refused before it took its snapshot
    forwards,
    exited

forwardVars == <<layer, spot, place, x, snap, partials, early, forwards, exited>>

ForwardInit ==
    /\ layer = 1 /\ spot = "layer" /\ place = Host
    /\ x = [d \in Devices \cup {Host} |-> IF d = Host THEN X(0) ELSE Junk]
    /\ snap = [d \in Devices |-> Junk]
    /\ partials = FALSE /\ early = FALSE /\ forwards = 0 /\ exited = FALSE

\* Adding the last part completes the layer.
Added(v, parts) ==
    IF v.parts \cup parts = Parts THEN X(v.done + 1) ELSE [v EXCEPT !.parts = @ \cup parts]

\* The residual of place a is copied to place b.
Copied(a, b) == [x EXCEPT ![b] = x[a]]

Here == Homes[layer]
Same == UNCHANGED <<snap, partials, early, forwards, exited>>

----------------------------------------------------------------------------
(* layers_forward_rows.                                                    *)

\* A layer that is not eligible, or whose device has no room for the
\* residual, or a transfer that failed: the authoritative copy comes home.
ToHost ==
    /\ spot = "layer" /\ layer <= Len(Homes)
    /\ x' = Copied(place, Host) /\ place' = Host /\ spot' = "cpu"
    /\ UNCHANGED layer /\ Same

\* Mutant: the residual is fetched from the device it was moving to.
MoveLosesTheOld ==
    /\ spot = "layer" /\ layer <= Len(Homes) /\ Here # Host /\ place # Here
    /\ x' = Copied(Here, Host) /\ place' = Host /\ spot' = "cpu"
    /\ UNCHANGED layer /\ Same

\* Upload, copy between devices, or nothing when it is there already.
Move ==
    /\ spot = "layer" /\ layer <= Len(Homes) /\ Here # Host
    /\ x' = Copied(place, Here) /\ place' = Here /\ spot' = "upload"
    /\ UNCHANGED layer /\ Same

\* A transfer that failed may have overwritten its destination.
MoveFails ==
    /\ spot = "layer" /\ layer <= Len(Homes) /\ Here # Host /\ place # Here
    /\ x' = [x EXCEPT ![Host] = x[place], ![Here] = Junk]
    /\ place' = Host /\ spot' = "cpu"
    /\ UNCHANGED layer /\ Same

\* layer_forward_rows on the host, in all its variants.
CpuLayer ==
    /\ spot = "cpu"
    /\ x' = [x EXCEPT ![Host] = Added(@, Parts)]
    /\ layer' = layer + 1 /\ spot' = "layer"
    /\ UNCHANGED place /\ Same

\* The end of a forward; the next one starts from new embeddings.
EndForward ==
    /\ spot = "layer" /\ layer = Len(Homes) + 1
    /\ x' = Copied(place, Host) /\ place' = Host /\ spot' = "end"
    /\ UNCHANGED layer /\ Same

NextForward ==
    /\ spot = "end" /\ forwards < MaxForwards
    /\ forwards' = forwards + 1
    /\ layer' = 1 /\ spot' = "layer"
    /\ x' = [x EXCEPT ![Host] = X(0)]
    /\ UNCHANGED <<place, snap, partials, early, exited>>

----------------------------------------------------------------------------
(* pipe_layer_sparse.                                                      *)

\* The weights of the shared expert or the norms cannot be uploaded.
Refused ==
    /\ spot = "upload" /\ spot' = "fallback" /\ early' = TRUE
    /\ UNCHANGED <<layer, place, x, snap, partials, forwards, exited>>

Snapshot ==
    /\ spot = "upload" /\ spot' = "attention"
    /\ snap' = [snap EXCEPT ![Here] = x[Here]]
    /\ UNCHANGED <<layer, place, x, partials, early, forwards, exited>>

\* The attention, the shared expert: each is added where it was computed.
Add(part, next) ==
    /\ spot = part /\ spot' = next
    /\ x' = [x EXCEPT ![Here] = Added(@, {part})]
    /\ UNCHANGED <<layer, place>> /\ Same

\* moe: its groups on other devices may leave partial sums in flight.
RoutedExperts ==
    /\ spot = "moe" /\ spot' = "resident"
    /\ partials' \in BOOLEAN
    /\ UNCHANGED <<layer, place, x, snap, early, forwards, exited>>

\* Mutant: partial sums that cannot be taken are left behind.
TakeResidentAnyway ==
    /\ spot = "resident" /\ spot' = "routed"
    /\ partials' = FALSE
    /\ \/ x' = [x EXCEPT ![Here] = Added(@, {"resident"})]
       \/ x' = x
    /\ UNCHANGED <<layer, place, snap, early, forwards, exited>>

\* Without partials the host's sum is all there is.
TakeResident ==
    /\ spot = "resident" /\ spot' = "routed"
    /\ partials' = FALSE
    /\ \/ /\ x' = [x EXCEPT ![Here] = Added(@, {"resident"})]
          /\ UNCHANGED exited
       \/ /\ partials /\ exited' = TRUE
          /\ UNCHANGED x
    /\ UNCHANGED <<layer, place, snap, early, forwards>>

Routed ==
    /\ spot = "routed" /\ spot' = "layer"
    /\ x' = [x EXCEPT ![Here] = Added(@, {"routed"})]
    /\ layer' = layer + 1
    /\ UNCHANGED place /\ Same

\* Any of these steps may fail, before or after its effect.
StepFails ==
    /\ spot \in {"attention", "shared", "routed"} /\ spot' = "fallback"
    /\ \/ UNCHANGED x
       \/ spot # "routed" /\ x' = [x EXCEPT ![Here] = Added(@, {spot})]
    /\ UNCHANGED <<layer, place>> /\ Same

\* The snapshot is restored and the layer is computed again by the host.
Fallback ==
    /\ spot = "fallback" /\ spot' = "cpu"
    /\ x' = [x EXCEPT ![Here] = snap[Here], ![Host] = snap[Here]]
    /\ place' = Host
    /\ UNCHANGED layer /\ Same

ForwardNext ==
    /\ ~exited
    /\ \/ ToHost \/ Move \/ MoveFails \/ CpuLayer \/ EndForward \/ NextForward
       \/ Refused \/ Snapshot \/ Add("attention", "shared") \/ Add("shared", "moe") \/ RoutedExperts
       \/ TakeResident \/ Routed \/ StepFails \/ Fallback

ForwardSpec == ForwardInit /\ [][ForwardNext]_forwardVars
----------------------------------------------------------------------------
Sums == [done : Nat, parts : SUBSET (Parts \cup {"junk"})]

ForwardTypeOK ==
    /\ layer \in 1..Len(Homes) + 1
    /\ spot \in {"layer", "cpu", "upload", "attention", "shared", "moe", "resident", "routed",
                 "fallback", "end"}
    /\ place \in Devices \cup {Host}
    /\ x \in [Devices \cup {Host} -> Sums] /\ snap \in [Devices -> Sums]
    /\ partials \in BOOLEAN /\ early \in BOOLEAN /\ exited \in BOOLEAN
    /\ forwards \in 0..MaxForwards

\* layers_forward_rows: what a forward hands on is every layer's sum, each
\* part once, whatever moved where and whatever failed on the way.
ForwardIsWhole == spot = "end" => x[Host] = X(Len(Homes))

\* The same when every refused layer had taken its snapshot, and the types.
ForwardIsWholeAfterSnapshots == ForwardTypeOK /\ (~early => ForwardIsWhole)
=============================================================================
