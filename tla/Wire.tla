-------------------------------- MODULE Wire --------------------------------
(***************************************************************************)
(* How a command crosses the connection: bif::encode_string makes a line   *)
(* of its arguments, shell_read_line cuts the bytes that arrive into       *)
(* lines, and decode_string makes arguments of a line again, before the    *)
(* shell (bif/shell.cc, process) looks the command up.                     *)
(*                                                                         *)
(* A character is one of nine that the code tells apart: two letters and   *)
(* two digits, which also occur in escapes; space, quote and backslash;    *)
(* line feed, a control character with an escape of its own; and one that  *)
(* is written in hexadecimal.  Carriage return is, like it, a control      *)
(* character, and occurs at the end of lines only.                         *)
(***************************************************************************)
EXTENDS Naturals, Sequences, FiniteSets

Sq == INSTANCE SequencesExt

CONSTANTS
  MaxWord,   \* bound of the model: characters of an argument (see WireNext)
  MaxArgs,   \* bound of the model: arguments of a command
  MaxSent,   \* bound of the model: commands a client sends
  LineMax,   \* LINE_LENGTH_MAX: 65536
  ArgMax     \* the arguments that decode_string takes: 256

ASSUME LineAssumption ==
  {MaxWord, MaxArgs, MaxSent, ArgMax} \subseteq Nat /\ LineMax \in Nat \ {0}

Letter  == {"n", "x"}
Digit   == {"0", "1"}
Quote   == "quote"
Slash   == "backslash"
Space   == "space"
LF      == "LF"
CR      == "CR"
SOH     == "SOH"
Control == {LF, SOH, CR}
Char    == Letter \cup Digit \cup {Quote, Slash, Space, LF, SOH}

Words(max)    == UNION {[1..k -> Char] : k \in 0..max}
Commands(max) == UNION {[1..k -> Words(max)] : k \in 1..MaxArgs}

(* Commands of one argument too many, all the same and short.              *)
Wide == {[i \in 1..(ArgMax + 1) |-> w] : w \in Words(1)}

VARIABLES
  sent,      \* the commands the client has sent
  stream,    \* bytes on their way
  answers    \* what the shell has made of each line

lineVars == <<sent, stream, answers>>

-----------------------------------------------------------------------------
(* Encoding                                                                *)

(* contains_metacharacters, or an empty argument.                          *)
NeedsQuotes(w) == w = <<>> \/ \E i \in DOMAIN w : w[i] \in Control \cup {Space, Quote}

(* Mutant: a backslash goes out as it is.                                  *)
EscapeBare(c) ==
  CASE c = LF    -> <<Slash, "n">>
    [] c = SOH   -> <<Slash, "x", "0", "1">>
    [] c = Quote -> <<Slash, Quote>>
    [] OTHER     -> <<c>>

(* A character between quotes.                                             *)
Escape(c) ==
  CASE c = LF    -> <<Slash, "n">>
    [] c = SOH   -> <<Slash, "x", "0", "1">>
    [] c \in {Quote, Slash} -> <<Slash, c>>
    [] OTHER     -> <<c>>

EncodeWord(w) ==
  IF NeedsQuotes(w)
    THEN <<Quote>> \o Sq!FlattenSeq([i \in DOMAIN w |-> Escape(w[i])]) \o <<Quote>>
    ELSE w

(* encode_string: the arguments, separated by one space.                   *)
encode_string(args) ==
  Sq!FlattenSeq([i \in DOMAIN args |->
                   EncodeWord(args[i]) \o IF i < Len(args) THEN <<Space>> ELSE <<>>])

-----------------------------------------------------------------------------
(* Decoding                                                                *)

(* The decoder: the arguments so far, the one it is in, and where it is:   *)
(* "gap" between arguments, "bare" in one outside quotes, "quoted",        *)
(* "escape" after a backslash, "hex" or "oct" with the digits read so far, *)
(* or "failed".                                                            *)
Decoder == [at |-> "gap", args |-> <<>>, arg |-> <<>>, digits |-> <<>>]

Goto(s, at) == [s EXCEPT !.at = at]
Add(s, c)   == [s EXCEPT !.arg = Append(@, c), !.at = "quoted"]
EndArg(s)   == [s EXCEPT !.args = Append(@, s.arg), !.arg = <<>>, !.at = "gap"]

(* Outside quotes: a control character is refused inside an argument and   *)
(* skipped before one; a backslash is an ordinary character.               *)
OutsideQuotes(s, c) ==
  CASE c = Space -> IF s.at = "gap" THEN s ELSE EndArg(s)
    [] c = LF /\ s.at = "gap" -> s
    [] c \in Control /\ ~(c = LF /\ s.at = "gap") -> Goto(s, "failed")
    [] c = Quote -> Goto(s, "quoted")
    [] OTHER -> Goto(Add(s, c), "bare")

InQuotes(s, c) ==
  CASE c \in Control -> Goto(s, "failed")
    [] c = Quote -> Goto(s, "bare")
    [] c = Slash -> Goto(s, "escape")
    [] OTHER -> Add(s, c)

AfterSlash(s, c) ==
  CASE c \in {Quote, Slash} -> Add(s, c)
    [] c = "n" -> Add(s, LF)
    [] c = "x" -> [s EXCEPT !.at = "hex", !.digits = <<>>]
    [] c \in Digit -> [s EXCEPT !.at = "oct", !.digits = <<c>>]
    [] OTHER -> Goto(s, "failed")

(* decode_hex wants two digits, decode_oct three.  A NUL ends the argument,*)
(* quotes and all; other codes than that of SOH are not distinguished.     *)
CodeDigit(s, c) ==
  LET digits == Append(s.digits, c)
      value  == IF s.at = "hex" THEN <<"0">> \o digits ELSE digits
  IN  CASE c \notin Digit -> Goto(s, "failed")
        [] c \in Digit /\ Len(value) < 3 -> [s EXCEPT !.digits = digits]
        [] c \in Digit /\ value = <<"0", "0", "0">> -> EndArg(s)
        [] OTHER -> Add(s, IF value = <<"0", "0", "1">> THEN SOH ELSE "other")

Decode(s, c) ==
  CASE s.at \in {"gap", "bare"} -> OutsideQuotes(s, c)
    [] s.at = "quoted" -> InQuotes(s, c)
    [] s.at = "escape" -> AfterSlash(s, c)
    [] s.at \in {"hex", "oct"} -> CodeDigit(s, c)
    [] s.at = "failed" -> s

(* The arguments, or none if the line has an error, ends between quotes or *)
(* has more than ArgMax arguments: an argument too many is counted when it *)
(* has been decoded, and ends the decoding as an error does.               *)
ReadOut(s) ==
  LET end == IF s.at = "bare" THEN EndArg(s) ELSE s
  IN  IF end.at = "gap" /\ Len(end.args) <= ArgMax
        THEN [ok |-> TRUE, args |-> end.args]
        ELSE [ok |-> FALSE]

decode_string(line) ==
  LET after[i \in 0..Len(line)] ==
        IF i = 0 THEN Decoder ELSE Decode(after[i - 1], line[i])
  IN  ReadOut(after[Len(line)])

-----------------------------------------------------------------------------
(* Reading                                                                 *)

(* The positions of the line feeds that end a line for a reader that has   *)
(* started at position from: it must have seen the carriage return.        *)
LineEnds(s, from) == {i \in (from + 1)..Len(s) : s[i] = LF /\ s[i-1] = CR}

First(S) == CHOOSE i \in S : \A j \in S : i <= j

Rest(s, i) == SubSeq(s, i, Len(s))

(* shell_read_line.  Of a line that is too long, the reader has taken      *)
(* LineMax characters and one more when it starts to look for the end,     *)
(* which it misses if that one was part of it: then the next line goes too.*)
Readable(s) ==
  /\ LineEnds(s, 1) # {}
  /\ First(LineEnds(s, 1)) - 1 < LineMax \/ LineEnds(s, LineMax + 2) # {}

ReadLine(s) ==
  LET end == First(LineEnds(s, 1))
  IN  IF end - 1 < LineMax
        THEN [read |-> TRUE, line |-> SubSeq(s, 1, end - 2), rest |-> Rest(s, end + 1)]
        ELSE [read |-> FALSE, rest |-> Rest(s, First(LineEnds(s, LineMax + 2)) + 1)]

-----------------------------------------------------------------------------
Send(args) ==
  /\ sent' = Append(sent, args)
  /\ stream' = stream \o encode_string(args) \o <<CR, LF>>
  /\ UNCHANGED answers

(* One round of the loop of shell::process, up to the command table.       *)
Receive ==
  /\ Readable(stream)
  /\ LET r == ReadLine(stream) IN
       /\ stream' = r.rest
       /\ answers' = Append(answers,
            IF ~r.read THEN [code |-> "line too long"]
            ELSE IF ~decode_string(r.line).ok THEN [code |-> "parse error"]
            ELSE [code |-> "command", args |-> decode_string(r.line).args])
  /\ UNCHANGED sent

WireInit == sent = <<>> /\ stream = <<>> /\ answers = <<>>

(* Bounds: one command with arguments of up to MaxWord characters, or up   *)
(* to MaxSent commands with arguments of at most one, which may be too many.*)
Brief == Commands(1) \cup Wide
Short == \A i \in DOMAIN sent : sent[i] \in Brief

WireNext ==
  \/ Receive
  \/ sent = <<>> /\ \E args \in Commands(MaxWord) : Send(args)
  \/ /\ Len(sent) < MaxSent /\ Short
     /\ \E args \in Brief : Send(args)

WireSpec == WireInit /\ [][WireNext]_lineVars

-----------------------------------------------------------------------------
(* Properties                                                              *)

(* What the shell should make of a command.                                *)
Expected(args) ==
  IF Len(encode_string(args)) + 1 >= LineMax THEN [code |-> "line too long"]
  ELSE IF Len(args) > ArgMax THEN [code |-> "parse error"]
  ELSE [code |-> "command", args |-> args]

(* The two lengths at which a line takes the next one with it.             *)
Swallowing(args) == Len(encode_string(args)) \in {LineMax - 1, LineMax}

(* The shell executes the commands that were sent, with the arguments they *)
(* were sent with and in their order, whatever characters these contain,   *)
(* if they have at most ArgMax arguments and their lines are shorter than  *)
(* LineMax; it refuses each one that has more arguments or is too long,    *)
(* until a line of just the longest length or one more.  Then too it never *)
(* answers more often than it was asked: no argument ends its line or      *)
(* begins another.                                                         *)
ExecutedAsSent ==
  LET clean == {k \in 0..Len(sent) : \A i \in 1..k : ~Swallowing(sent[i])}
  IN  /\ Len(answers) <= Len(sent)
      /\ \A k \in DOMAIN answers : k \in clean => answers[k] = Expected(sent[k])
=============================================================================
