----------------------------- MODULE MCMessages ------------------------------
(* Messages with one request, to either handler, one Claude account and    *)
(* one key of either type; the policies that an admin submits cover the    *)
(* request, do not cover it, are refused, or have no rules.                *)
EXTENDS Messages

MCNames == DefaultNames \cup {"default", "thinking", "none", "unknown"}
MCAsks == {[model |-> "claude-opus-4-7", variant |-> "default"]}
MCRule(patchTo) ==
  [enabled |-> TRUE, from |-> "claude-opus-4-7", variant |-> "default",
   to |-> "claude-opus-4-6", patch |-> patchTo]
MCPuts ==
  { [enabled |-> FALSE, rules |-> << MCRule("") >>],
    [enabled |-> TRUE,
     rules |-> << [MCRule("none") EXCEPT !.enabled = FALSE],
                  [MCRule("none") EXCEPT !.variant = "thinking"] >>],
    [enabled |-> TRUE, rules |-> << MCRule("none") >>],
    [enabled |-> TRUE, rules |-> << MCRule("unknown") >>],
    [enabled |-> FALSE, rules |-> << >>] }
==============================================================================
