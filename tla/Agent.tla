------------------------------- MODULE Agent --------------------------------
(***************************************************************************)
(* The agent arm (internal/agent) and the adapter it talks through         *)
(* (internal/llm, internal/llm/openai): turns, tool calls and the budgets  *)
(* that end them, the forms a request is retried in, and what the turns    *)
(* are said to have cost.  What the model answers is input.                *)
(***************************************************************************)
EXTENDS Naturals, Sequences

CONSTANTS
    MaxIterations,   \* model turns
    AgentChecks,     \* model-initiated checks per run
    AgentWallClock,  \* their execution time, in the model's units
    ModelInputTotal, \* check output handed to the model, in the model's units
    Replies,         \* the tool calls a reply may carry: a set of sequences over Tools
    Prices           \* what a priced turn may cost: a set of positive numbers

Tools == {"check", "report", "unknown"}

ASSUME AgentAssumption ==
    /\ MaxIterations \in Nat \ {0} /\ AgentChecks \in Nat /\ AgentWallClock \in Nat
    /\ ModelInputTotal \in Nat /\ Replies \subseteq Seq(Tools) /\ Prices \subseteq Nat \ {0}

VARIABLES
    agent,    \* Session: its place, turn, counters, stop reason and outcome
    todo,     \* the tool calls of the reply not answered yet
    form,     \* how the adapter words a request, and how often it posted this one
    bill      \* Outcome.Usage, and what each turn really reported

agentVars == <<agent, todo, form, bill>>

AgentInit ==
    /\ agent = [pc |-> "start", turn |-> 0, checks |-> 0, wall |-> 0, input |-> 0, shown |-> 0,
                stop |-> "none", investigating |-> 0, unread |-> 0, asked |-> 0, results |-> 0,
                status |-> "incomplete", over |-> FALSE]
    /\ todo = <<>>
    /\ form = [legacy |-> FALSE, reasoning |-> TRUE, none |-> FALSE, posts |-> 0]
    /\ bill = [tokens |-> 0, cost |-> 0, turns |-> <<>>]

(* The loop returns: no reason is a finished assessment. *)
AgentEnds(status) == [agent EXCEPT !.pc = "done", !.status = status]

(* account: the budget of bytes handed to the model; the reason that       *)
(* exhausts a budget first is the one kept.                                *)
Account(s, n) ==
    LET t == [s EXCEPT !.input = @ + n] IN
    IF t.input > ModelInputTotal /\ t.stop = "none" THEN [t EXCEPT !.stop = "input"] ELSE t

-----------------------------------------------------------------------------
(* Run: the fact sheet is accounted for before the first turn. *)
AgentStart ==
    /\ agent.pc = "start"
    /\ \E facts \in 0..(ModelInputTotal + 1) :
          LET s == Account(agent, facts) IN
          agent' = IF s.stop # "none" THEN [s EXCEPT !.pc = "done"]
                   ELSE [s EXCEPT !.pc = "turn", !.shown = @ + facts]
    /\ UNCHANGED <<todo, form, bill>>

(* A turn: a run that is over, and a request that with its output          *)
(* reservation does not fit the context (CheckFit), send nothing.          *)
AgentTurn ==
    /\ agent.pc = "turn"
    /\ \E fits \in BOOLEAN :
          agent' = IF agent.over \/ ~fits THEN AgentEnds("incomplete") ELSE [agent EXCEPT !.pc = "post"]
    /\ form' = [form EXCEPT !.posts = 0]
    /\ UNCHANGED <<todo, bill>>

(* What a 400 complained of, as Provider.Stream reads it: the form the     *)
(* request is sent in next, or the same form when it cannot be reworded.   *)
Reworded(f, bad) ==
    CASE ~f.legacy /\ "max_tokens" \in bad                         -> [f EXCEPT !.legacy = TRUE]
      [] ~f.none /\ {"reasoning", "tools"} \subseteq bad           -> [f EXCEPT !.reasoning = FALSE, !.none = TRUE]
      [] (f.reasoning \/ f.none) /\ "reasoning" \in bad            -> [f EXCEPT !.reasoning = FALSE, !.none = FALSE]
      [] OTHER                                                     -> f

(* Provider.Stream: three posts at most, each in a form not tried before.  *)
Post ==
    /\ agent.pc = "post"
    /\ \/ /\ agent' = [agent EXCEPT !.pc = "stream", !.unread = 0] /\ UNCHANGED form
       \/ \E bad \in SUBSET {"max_tokens", "reasoning", "tools"} :
             LET f == Reworded([form EXCEPT !.posts = @ + 1], bad) IN
             /\ form' = f
             /\ agent' = IF f.posts = 3 \/ f = [form EXCEPT !.posts = @ + 1]
                         THEN AgentEnds("incomplete") ELSE agent
       \/ agent' = AgentEnds("incomplete") /\ UNCHANGED form   \* auth, overflow, transport, ctx
    /\ UNCHANGED <<todo, bill>>

(* Usage.Add: a turn with a price is added to a total every earlier turn   *)
(* had a price in; a total with no tokens and no price is taken for one no *)
(* turn was added to yet.  0 is "no price".                                *)
AddUsage(b, tokens, price) ==
    LET fresh == b.tokens = 0 /\ b.cost = 0 IN
    [tokens |-> b.tokens + tokens,
     cost   |-> CASE price = 0 -> 0 [] fresh -> price [] b.cost # 0 -> b.cost + price [] OTHER -> 0,
     turns  |-> Append(b.turns, price)]

(* Recv, chunk, finishUp and Drain: a stream that breaks, or ends before a *)
(* finish reason or a done event, is an error; otherwise the reply carries *)
(* calls and a stop reason.  Usage may be missing, and then has no price.  *)
Reply ==
    /\ agent.pc = "stream"
    /\ \/ agent' = AgentEnds("incomplete") /\ UNCHANGED <<todo, bill>>
       \/ \E calls \in Replies, stop \in {"end", "cut"}, price \in Prices \cup {0}, used \in BOOLEAN :
             /\ price # 0 => used
             /\ bill' = AddUsage(bill, IF used THEN 1 ELSE 0, price)
             /\ todo' = IF stop = "cut" THEN <<>> ELSE calls
             /\ agent' = IF stop = "cut" THEN [AgentEnds("incomplete") EXCEPT !.turn = @ + 1]
                         ELSE IF calls = <<>> THEN [AgentEnds("complete") EXCEPT !.turn = @ + 1]
                         ELSE [agent EXCEPT !.pc = "calls", !.turn = @ + 1, !.investigating = 0,
                                            !.asked = Len(calls), !.results = 0]
    /\ UNCHANGED form

(* execute: the budgets are asked before a check is run, and its output is *)
(* handed over only while the input budget holds.                          *)
ExecuteUnchecked(s, time, bytes) ==
    LET t == Account([s EXCEPT !.checks = @ + 1, !.wall = @ + time], bytes) IN
    [t EXCEPT !.shown = @ + bytes]
Execute(s, time, bytes) ==
    IF s.checks >= AgentChecks THEN [s EXCEPT !.stop = IF @ = "none" THEN "checks" ELSE @]
    ELSE IF s.wall >= AgentWallClock THEN [s EXCEPT !.stop = IF @ = "none" THEN "wall" ELSE @]
    ELSE LET t == Account([s EXCEPT !.checks = @ + 1, !.wall = @ + time], bytes)
         IN  IF t.stop = "none" THEN [t EXCEPT !.shown = @ + bytes] ELSE t

(* call: one tool call is answered; a budget exhausted leaves the rest     *)
(* answered as not executed.                                               *)
Call ==
    /\ agent.pc = "calls" /\ todo # <<>>
    /\ \E time \in 0..1, bytes \in 0..1 :
          /\ Head(todo) # "check" => time = 0 /\ bytes = 0
          /\ LET s == [(IF Head(todo) = "check" THEN Execute(agent, time, bytes) ELSE agent)
                       EXCEPT !.investigating = @ + (IF Head(todo) = "report" THEN 0 ELSE 1),
                              !.unread = @ + (IF Head(todo) = "report" THEN 0 ELSE 1),
                              !.results = @ + 1]
             IN  IF s.stop = "none" THEN agent' = s /\ todo' = Tail(todo)
                 ELSE agent' = [s EXCEPT !.results = @ + Len(todo) - 1] /\ todo' = <<>>
    /\ UNCHANGED <<form, bill>>

(* The end of a turn: a budget, the last turn, or the next turn. *)
TurnEnds ==
    IF agent.stop # "none" THEN AgentEnds("incomplete")
    ELSE IF agent.turn < MaxIterations THEN [agent EXCEPT !.pc = "turn"]
    ELSE AgentEnds(IF agent.investigating = 0 THEN "complete" ELSE "incomplete")
EndTurn ==
    /\ agent.pc = "calls" /\ todo = <<>>
    /\ agent' = TurnEnds
    /\ UNCHANGED <<todo, form, bill>>

(* RunTimeout passes. *)
AgentTimesOut ==
    /\ agent.pc # "done" /\ ~agent.over /\ agent' = [agent EXCEPT !.over = TRUE]
    /\ UNCHANGED <<todo, form, bill>>

AgentNext == AgentStart \/ AgentTurn \/ Post \/ Reply \/ Call \/ EndTurn \/ AgentTimesOut

-----------------------------------------------------------------------------
(* An assessment is complete only if no budget ended it and the model was  *)
(* handed the answer to everything it asked for, and the next request      *)
(* carries one result per call of the reply before it (Session.Run).       *)
CompleteIsEarned ==
    /\ agent.status = "complete" => agent.stop = "none" /\ agent.unread = 0
    /\ agent.pc \in {"turn", "post"} => agent.results = agent.asked

(* No budget is passed: not the turns, not the checks a reply with several *)
(* calls asks for in a row, and not the bytes of output the model was      *)
(* handed, the fact sheet included (Session.execute, Session.account); and *)
(* an assessment they cut is not called complete.                          *)
BudgetsHold ==
    /\ agent.turn <= MaxIterations
    /\ agent.checks <= AgentChecks
    /\ agent.shown <= ModelInputTotal
    /\ CompleteIsEarned
=============================================================================
