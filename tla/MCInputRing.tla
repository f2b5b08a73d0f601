----------------------------- MODULE MCInputRing -----------------------------
(* Instances of InputRing for TLC. *)
EXTENDS InputRing

(* Locals of update_shared_motion and of the Xlib calls are part of a      *)
(* state only while the code still reads them; no action and no property   *)
(* of the run looks at them, at dropped or at out otherwise.               *)
Live(x, positions) == IF gpc \in positions THEN x ELSE 0

LiveView ==
    <<enabled, head, tail, lo, hi, motion, hpc, events, motions, mask, applied, masks,
      [w \in Writers |-> IF hpc[w] \in {"m_odd", "m_lo", "m_hi", "m_even"}
                         THEN wseq[w] ELSE 0],
      [w \in Writers |-> IF hpc[w] \in {"m_load", "m_odd", "m_lo", "m_hi"}
                         THEN wval[w] ELSE 0],
      gpc, IF gpc \in {"loop", "blocked"} THEN "next" ELSE mode,
      Live(try, {"ring", "serial", "r_serial", "r_seq", "r_lo", "r_hi", "r_seq2", "r_serial2"}),
      Live(gserial, {"r_seq", "r_lo", "r_hi", "r_seq2", "r_serial2", "motion"}),
      Live(gseq, {"r_lo", "r_hi", "r_seq2"}),
      Live(glo, {"hi", "take", "r_hi", "r_seq2", "r_serial2", "motion"}),
      Live(ghi, {"take", "r_seq2", "r_serial2", "motion"}),
      consumed, motionOut>>
==============================================================================
