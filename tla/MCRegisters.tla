---------------------------- MODULE MCRegisters ----------------------------
(***************************************************************************)
(* One model, several components.  The components of a run share no state,  *)
(* so a behaviour of the run is a behaviour of one of them, which "focus"    *)
(* names from the start.  The registers hold the variables of that component *)
(* in the order in which its module declares them, and the others are "off": *)
(* OffN switches off, and KeepN leaves alone, the registers from N on.       *)
(***************************************************************************)
VARIABLES focus, r1, r2, r3, r4, r5, r6, r7, r8, r9, r10, r11, r12, r13, r14, r15, r16

vars == <<focus, r1, r2, r3, r4, r5, r6, r7, r8, r9, r10, r11, r12, r13, r14, r15, r16>>

Off17 == TRUE
Off16 == r16 = "off" /\ Off17
Off15 == r15 = "off" /\ Off16
Off14 == r14 = "off" /\ Off15
Off13 == r13 = "off" /\ Off14
Off12 == r12 = "off" /\ Off13
Off11 == r11 = "off" /\ Off12
Off10 == r10 = "off" /\ Off11
Off9 == r9 = "off" /\ Off10
Off8 == r8 = "off" /\ Off9
Off7 == r7 = "off" /\ Off8
Off6 == r6 = "off" /\ Off7
Off5 == r5 = "off" /\ Off6
Off4 == r4 = "off" /\ Off5
Off3 == r3 = "off" /\ Off4
Off2 == r2 = "off" /\ Off3

Keep17 == UNCHANGED focus
Keep16 == UNCHANGED r16 /\ Keep17
Keep15 == UNCHANGED r15 /\ Keep16
Keep14 == UNCHANGED r14 /\ Keep15
Keep13 == UNCHANGED r13 /\ Keep14
Keep12 == UNCHANGED r12 /\ Keep13
Keep11 == UNCHANGED r11 /\ Keep12
Keep10 == UNCHANGED r10 /\ Keep11
Keep9 == UNCHANGED r9 /\ Keep10
Keep8 == UNCHANGED r8 /\ Keep9
Keep7 == UNCHANGED r7 /\ Keep8
Keep6 == UNCHANGED r6 /\ Keep7
Keep5 == UNCHANGED r5 /\ Keep6
Keep4 == UNCHANGED r4 /\ Keep5
Keep3 == UNCHANGED r3 /\ Keep4
Keep2 == UNCHANGED r2 /\ Keep3
=============================================================================
