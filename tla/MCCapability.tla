---------------------------- MODULE MCCapability ----------------------------
(***************************************************************************)
(* Instances of Membrane for TLC: five executors, two pairs of which share *)
(* an id; one is disabled, one native, and one not valid.                  *)
(***************************************************************************)
EXTENDS Membrane, TLC

CONSTANTS write, read, off, native, odd, r1, r2, r3, r4, r5,
          i1, i2, i3, i4, i5, t1, t3, t4, t5

Descriptor(id, tier, mutating, enabled) ==
    [id |-> id, tier |-> tier, mutating |-> mutating, enabled |-> enabled]

MCDescribe ==
    [e \in Executor |->
        CASE e = write -> Descriptor("a", "T2_BOUNDED", TRUE, TRUE)
          [] e = read -> Descriptor("a", "T1_READ", FALSE, TRUE)
          [] e = off -> Descriptor("b", "T2_BOUNDED", TRUE, FALSE)
          [] e = native -> Descriptor("b", "T3_PRIVILEGED", FALSE, TRUE)
          [] e = odd -> Descriptor("c", "T1_READ", TRUE, TRUE)]

\* r3 and r4 name the native or the disabled capability.
MCCapabilityID == [r \in Request |-> IF r \in {r3, r4} THEN "b" ELSE "a"]

MCRequestID == [r \in Request |-> CASE r = r1 -> i1 [] r = r2 -> i2 [] r = r3 -> i3
                                    [] r = r4 -> i4 [] r = r5 -> i5]

\* The ids of r1 and r2 differ only beyond the cut.
MCTransitionID ==
    [r \in Request |-> CASE r \in {r1, r2} -> t1 [] r = r3 -> t3 [] r = r4 -> t4
                         [] r = r5 -> t5]
==============================================================================
