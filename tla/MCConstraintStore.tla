------------------------- MODULE MCConstraintStore --------------------------
(***************************************************************************)
(* Two constraints, the setup times and a weight; bodies that edit one key *)
(* each, two keys, a key that is new, or only the switch.                  *)
(***************************************************************************)
EXTENDS ConstraintStore

MCSeed == [setup |-> [stranding |-> 1, sheath |-> 1], weight |-> [weight |-> 1]]

Body(cid, params, enabled) == [cid |-> cid, params |-> params, enabled |-> enabled]

MCPatches == {Body("setup", [stranding |-> 2], Nothing), Body("setup", [sheath |-> 2], Nothing),
              Body("weight", [weight |-> 2], TRUE), Body("weight", [k \in {} |-> 0], FALSE),
              Body("weight", [weight |-> 1, floor |-> 1], Nothing)}

=============================================================================
