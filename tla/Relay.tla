-------------------------------- MODULE Relay --------------------------------
(***************************************************************************)
(* What the proxy reads out of an answer it passes on (relay/): the token  *)
(* counts of an event stream that arrives in chunks cut anywhere, or of a  *)
(* single document.  A line of a stream is one element: a line that was    *)
(* cut between two chunks is whole in the buffer, and one that the stream  *)
(* broke off inside of is the line of what a reader finds in its part.     *)
(* Definitions only; Accounting feeds them.                                *)
(***************************************************************************)
EXTENDS Integers, Sequences, FiniteSetsExt

Usage == [input : Nat, output : Nat, total : Nat]
NoUsage == [input |-> 0, output |-> 0, total |-> 0]

(* The lines of a stream: "event:", "data:", and the empty line that ends  *)
(* an event.  A payload has a usage or not (given), and may be [DONE].     *)
Types == {"none", "created", "completed", "incomplete", "start", "delta", "stop"}
Payload == [given : BOOLEAN, usage : Usage, done : BOOLEAN]
Events == [type : Types, data : Payload]

TypeLine(t) == [line |-> "event", of |-> t]
DataLine(d) == [line |-> "data", of |-> d]
Blank == [line |-> "blank", of |-> "none"]

(* The lines of an event: chat completions have no types.                  *)
Height(kind) == IF kind = "chat" THEN 2 ELSE 3
Block(kind, e) == IF kind = "chat" THEN <<DataLine(e.data), Blank>>
                  ELSE <<TypeLine(e.type), DataLine(e.data), Blank>>

Wire(kind, events) ==
  [n \in 1..(Height(kind) * Len(events)) |->
     Block(kind, events[((n - 1) \div Height(kind)) + 1])[((n - 1) % Height(kind)) + 1]]

(* What gjson may read of a payload that breaks off: it does not ask for   *)
(* the end of an object, or of a number.  A count is whole, short of its   *)
(* last digits, or missing; a [DONE] that is not whole is none.  (Not each *)
(* of these is the beginning of some text.)  A part of an "event:" line    *)
(* has no data with it, so that nothing is read.                           *)
Torn(d) ==
  {c \in [given : {FALSE, d.given}, done : {FALSE},
          usage : [input : 0..d.usage.input, output : 0..d.usage.output,
                   total : 0..d.usage.total]] :
     c.given \/ c.usage = NoUsage}

-----------------------------------------------------------------------------
(* The three dialects.                                                     *)

Summed(u) == IF u.total = 0 THEN [u EXCEPT !.total = u.input + u.output] ELSE u
Positive(v, old) == IF v > 0 THEN v ELSE old

Responses(type, d, u) ==
  IF type \in {"completed", "incomplete"} /\ d.given THEN Summed(d.usage) ELSE u

Anthropic(type, d, u) ==
  CASE type = "start" -> [u EXCEPT !.input = Positive(d.usage.input, @)]
    [] type = "delta" -> [u EXCEPT !.input = Positive(d.usage.input, @),
                                   !.output = Positive(d.usage.output, @)]
    [] type = "stop" -> Summed(u)
    [] OTHER -> u

Chat(d, u) ==
  IF d.done THEN Summed(u)
  ELSE [u EXCEPT !.input = Positive(d.usage.input, @),
                 !.output = Positive(d.usage.output, @),
                 !.total = Positive(d.usage.total, @)]

Apply(kind, type, d, u) ==
  CASE kind = "responses" -> Responses(type, d, u)
    [] kind = "claude" -> Anthropic(type, d, u)
    [] kind = "chat" -> Chat(d, u)

(* parseEvent: the last type counts; without data there is no event.       *)
ParseEvent(kind, lines, u) ==
  LET types == {i \in DOMAIN lines : lines[i].line = "event"}
      data == {i \in DOMAIN lines : lines[i].line = "data"}
  IN IF data = {} THEN u
     ELSE Apply(kind, IF types = {} THEN "none" ELSE lines[Max(types)].of,
                lines[Max(data)].of, u)

-----------------------------------------------------------------------------
(* The scanner: the lines of the event that is not complete, the usage so  *)
(* far.                                                                    *)
Scanner == [buf |-> << >>, usage |-> NoUsage]

(* Mutant: one event per chunk, the rest waits for the next one. *)
FeedOne(kind, s, chunk) ==
  LET lines == s.buf \o chunk
      ends == {i \in DOMAIN lines : lines[i] = Blank}
  IN IF ends = {} THEN [s EXCEPT !.buf = lines]
     ELSE [buf |-> SubSeq(lines, Min(ends) + 1, Len(lines)),
           usage |-> ParseEvent(kind, SubSeq(lines, 1, Min(ends)), s.usage)]

Scan(kind, s, l) ==
  IF l = Blank THEN [buf |-> << >>, usage |-> ParseEvent(kind, s.buf, s.usage)]
  ELSE [s EXCEPT !.buf = Append(@, l)]

Feed(kind, s, chunk) ==
  LET after[i \in 0..Len(chunk)] ==
        IF i = 0 THEN s ELSE Scan(kind, after[i - 1], chunk[i])
  IN after[Len(chunk)]

Done(kind, s) == ParseEvent(kind, s.buf, s.usage)

(* A document that is no stream, or could not be read.                     *)
ReadBody(d, ok) == IF ok THEN Summed(d.usage) ELSE NoUsage

-----------------------------------------------------------------------------
(* What the events of a stream say, if they are taken one by one.          *)
Told(kind, events) ==
  LET after[i \in 0..Len(events)] ==
        IF i = 0 THEN NoUsage
        ELSE Apply(kind, events[i].type, events[i].data, after[i - 1])
  IN after[Len(events)]
==============================================================================
