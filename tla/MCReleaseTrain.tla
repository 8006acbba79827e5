--------------------------- MODULE MCReleaseTrain ---------------------------
(* Packages that depend on one another, for TLC: three of them.  The last is   *)
(* bumped first, then one it builds on: the one all build on, or the one in    *)
(* between, without its CHANGELOG heading.  A train may carry either bump or   *)
(* both.                                                                       *)
EXTENDS ReleaseTrain

Chain == {"adapter", "adapter_ai_context", "adapter_mcp"}

MCChanges ==
    << {[of |-> {"adapter_mcp"}, flaw |-> "none"]},
       {[of |-> {"adapter"}, flaw |-> "none"],
        [of |-> {"adapter_ai_context"}, flaw |-> "changelog"]} >>
=============================================================================
