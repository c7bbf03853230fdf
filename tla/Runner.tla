------------------------------- MODULE Runner -------------------------------
(***************************************************************************)
(* The decisions of the host runner (internal/runner, internal/policy):    *)
(* what the path policy makes of a path, what elevation does to a command, *)
(* and what the end of a command is recorded as.  Host.tla and Bounded.tla *)
(* take their steps with these operators; nothing here has state.          *)
(***************************************************************************)
EXTENDS Naturals

(* How a command can end, as Target.Exec reports it.  "good" to "garbled"  *)
(* come with an exit status: an accepted one, one the check does not accept*)
(* (or, for a check that accepts any, nothing on stdout and a complaint on *)
(* stderr), 127, sudo's own refusal, and output that Extract or the parser *)
(* cannot read.  "lost" came back with no exit status, "failed" is a local *)
(* command that could not be started, "timeout" is ctx.Done() taken.       *)
Statuses == {"good", "bad", "missing", "sudo", "garbled"}
Ends == Statuses \cup {"lost", "failed", "timeout"}

(* The reason codes of Result.ReasonCode, "ok" for StatusOK.               *)
Codes == {"ok", "unknown_check", "invalid_params", "path_denied", "metadata_unavailable",
          "requires_elevation", "command_missing", "check_timeout", "run_timeout", "canceled",
          "exec_error", "sudo_refused", "exit_error", "parse_error"}

(* PathPolicy.Decide on an absolute path: what each table says of it is a  *)
(* field of p.  A denied prefix wins over everything, a sensitive file is  *)
(* metadata-only only where its tree is reachable at all.                  *)
Decide(p) ==
    IF p.denied THEN "deny"
    ELSE IF p.sensitive
         THEN IF p.content \/ p.metadata THEN "metadata" ELSE "deny"
    ELSE IF p.content THEN "allow"
    ELSE IF p.metadata THEN "metadata"
    ELSE "deny"

(* What runCheck executes for a path parameter once Decide has answered:   *)
(* the check itself, the stat that stands in for one that reads content,   *)
(* or nothing.                                                             *)
Substitute(use, verdict) ==
    CASE verdict = "deny"                           -> "denied"
      [] verdict = "metadata" /\ use = "content"    -> "stat"
      [] OTHER                                      -> "check"

(* Elevation of a check the runner is about to execute.                    *)
Elevation(c, elevate) ==
    IF ~c.elevated THEN "plain"
    ELSE CASE elevate = "sudo" -> "probe"
           [] elevate = "root" -> "plain"
           [] OTHER            -> "refused"

(* installed: whether the availability probe lets the elevated command run.*)
(* No `which` on the host is taken as present; a lost session, and every   *)
(* other end that is not an exit 0, are not.                               *)
Installed(end) == end \in {"good", "garbled", "missing"}

(* The code of an elevated check whose probe did not let it run.           *)
ProbeCode(end) == IF end = "lost" THEN "exec_error" ELSE "command_missing"

(* runCheck's classification of the command's end.  ended is what the      *)
(* caller's context says when Exec has returned.                           *)
Classify(end, sudo, ended) ==
    CASE end = "missing" -> "command_missing"
      [] end = "timeout" -> (CASE ended = "no"       -> "check_timeout"
                               [] ended = "canceled" -> "canceled"
                               [] OTHER              -> "run_timeout")
      [] end \in {"lost", "failed"} -> "exec_error"
      [] end = "sudo"    -> IF sudo THEN "sudo_refused" ELSE "exit_error"
      [] end = "bad"     -> "exit_error"
      [] end = "garbled" -> "parse_error"
      [] OTHER           -> "ok"

(* retain: the reference of the next observation of a check, its count of  *)
(* occurrences so far being n.                                             *)
Reference(check, n) == <<check, n + 1>>
=============================================================================
