------------------------------ MODULE TurnStream ------------------------------
(* What a provider says in a turn, on its way to the evidence. The sessions  *)
(* of claude and codex stream a message in deltas and then send it whole;    *)
(* missingStreamSuffix keeps what the deltas did not bring. The children of  *)
(* grok, agy and the claude CLI write records or plain text, which arrive in *)
(* chunks cut anywhere. ContentCoalescer (adapters/base.ts) joins text of    *)
(* one kind, until its timer fires, the kind changes or a tool is used.      *)
(*                                                                           *)
(* A piece of text is a number, in the order in which they are sent; a piece *)
(* that a child writes is a character of two bytes.                          *)
EXTENDS Naturals, Sequences, SequencesExt

CONSTANTS MaxPieces, \* bound: pieces and tools of a behaviour
          MaxTurns,  \* bound: turns of a session
          Full       \* maxBytes of the coalescer, in pieces

ASSUME StreamAssumption == {MaxPieces, MaxTurns, Full} \subseteq Nat \ {0}

VARIABLES
    streamProvider,  \* whose stream it is
    turnPhase,       \* "begun": the turn is registered, "live": the provider works on it
    turns,           \* turns begun
    kinds,           \* kinds[p]: what the piece p is
    first,           \* the pieces up to this one were sent before the turn
    text,            \* text[k]: the message of the kind that is being sent
    streamed,        \* streamedText, streamedThinking
    stream,          \* held: #current of the coalescer; said: the evidence of the turn
    resultText,      \* resultText
    wire,            \* bytes a child has written and the server has not read
    pending,         \* IncrementalLineBuffer.#pending
    closed,          \* history: kinds of which a streamed message has ended in the turn
    excused          \* history: pieces the code may lose or damage, see TextIsWhole

streamVars == <<streamProvider, turnPhase, turns, kinds, first, text, streamed, stream, resultText,
                wire, pending, closed, excused>>

Kinds    == {"message", "thinking"}
Sessions == {"claude", "codex"}
Children == {"grok", "agy", "cli"}
Char(p, ok) == [of |-> p, ok |-> ok]
Chars == [of : 1..MaxPieces, ok : BOOLEAN]
Bytes == [of : 1..MaxPieces, part : {"lead", "tail", "close", "newline"}]
NoText == [k \in Kinds |-> <<>>]

StreamTypeOK ==
    /\ streamProvider \in Sessions \cup Children
    /\ turnPhase \in {"idle", "begun", "live", "dying", "ended"} /\ turns \in 0..MaxTurns
    /\ kinds \in Seq(Kinds \cup {"tool"}) /\ first \in 0..MaxPieces
    /\ text \in [Kinds -> Seq(Chars)] /\ streamed \in [Kinds -> Seq(Chars)]
    /\ stream \in [held : Seq(Chars), said : Seq(Chars)] /\ resultText \in Seq(Chars)
    /\ wire \in Seq(Bytes) /\ pending \in Seq(Chars \cup Bytes)
    /\ closed \subseteq Kinds /\ excused \subseteq 1..MaxPieces

StreamInit ==
    /\ streamProvider \in Sessions \cup Children
    /\ turnPhase = "idle" /\ turns = 0 /\ kinds = <<>> /\ first = 0
    /\ text = NoText /\ streamed = NoText
    /\ stream = [held |-> <<>>, said |-> <<>>] /\ resultText = <<>>
    /\ wire = <<>> /\ pending = <<>> /\ closed = {} /\ excused = {}

-----------------------------------------------------------------------------
(* The coalescer. What it lets out is evidence of the turn that is           *)
(* registered then (codex) or being worked on (the others).                  *)
Listening == turnPhase \in {"live", "dying"} \/ (streamProvider = "codex" /\ turnPhase = "begun")
Emitted(s, chars) == [s EXCEPT !.said = IF Listening THEN @ \o chars ELSE @]
Flushed(s) == [Emitted(s, s.held) EXCEPT !.held = <<>>]
Pushed(s, k, chars) ==
    LET ready == IF s.held # <<>> /\ kinds'[s.held[1].of] # k THEN Flushed(s) ELSE s
        added == [ready EXCEPT !.held = @ \o chars]
    IN IF Len(added.held) >= Full THEN Flushed(added) ELSE added

TimerFires ==
    /\ stream.held # <<>> /\ stream' = Flushed(stream)
    /\ UNCHANGED <<streamProvider, turnPhase, turns, kinds, first, text, streamed, resultText, wire,
                   pending, closed, excused>>

-----------------------------------------------------------------------------
(* A turn of a session: registered, taken up with nothing streamed, ended.   *)
Begin ==
    /\ turnPhase = "idle" /\ turns < MaxTurns /\ (streamProvider \in Children => turns = 0)
    /\ turnPhase' = IF streamProvider \in Sessions THEN "begun" ELSE "live"
    /\ turns' = turns + 1 /\ first' = Len(kinds)
    /\ stream' = [stream EXCEPT !.said = <<>>] /\ resultText' = <<>>
    /\ UNCHANGED <<streamProvider, kinds, text, streamed, wire, pending, closed, excused>>
TakeUp ==
    /\ turnPhase = "begun" /\ turnPhase' = "live"
    /\ first' = Len(kinds) /\ streamed' = NoText /\ closed' = {}
    /\ UNCHANGED <<streamProvider, turns, kinds, text, stream, resultText, wire, pending, excused>>
FinishTurn ==
    /\ turnPhase = "live" /\ streamProvider \in Sessions
    /\ turnPhase' = "ended" /\ stream' = Flushed(stream)
    /\ text' \in {text, NoText}
    /\ UNCHANGED <<streamProvider, turns, kinds, first, streamed, resultText, wire, pending, closed,
                   excused>>
LeaveSession ==
    /\ turnPhase = "ended" /\ streamProvider \in Sessions /\ turnPhase' = "idle"
    /\ UNCHANGED <<streamProvider, turns, kinds, first, text, streamed, stream, resultText, wire,
                   pending, closed, excused>>

(* What a session sends, in a turn or after it was given up. Outside a turn  *)
(* claude drops it, codex still hands it to the coalescer.                   *)
Sends == streamProvider \in Sessions /\ turnPhase # "ended" /\ Len(kinds) < MaxPieces
NextPiece == Len(kinds) + 1
Takes == turnPhase = "live" \/ streamProvider = "codex"
Spoken(k, chars) ==
    resultText' = IF streamProvider = "codex" /\ turnPhase = "live" /\ k = "message"
              THEN resultText \o chars ELSE resultText

Delta(k) ==
    LET piece == <<Char(NextPiece, TRUE)>> IN
    /\ Sends /\ kinds' = Append(kinds, k)
    /\ text' = [text EXCEPT ![k] = @ \o piece]
    /\ streamed' = IF turnPhase = "live" THEN [streamed EXCEPT ![k] = @ \o piece] ELSE streamed
    /\ stream' = IF Takes THEN Pushed(stream, k, piece) ELSE stream
    /\ Spoken(k, piece)
    /\ UNCHANGED <<streamProvider, turnPhase, turns, first, wire, pending, closed, excused>>

(* The whole message, with pieces that no delta has brought.                 *)
WholeText(complete, before) == complete
MissingStreamSuffix(complete, before) ==
    IF IsPrefix(before, complete)
    THEN SubSeq(complete, Len(before) + 1, Len(complete)) ELSE <<>>
Completed(k, extra) ==
    LET news     == [i \in 1..extra |-> Char(Len(kinds) + i, TRUE)]
        complete == text[k] \o news
        suffix   == IF turnPhase = "live" THEN MissingStreamSuffix(complete, streamed[k])
                                      ELSE complete
        odd      == text[k] # <<>> /\ text[k][1].of <= first
    IN
    /\ streamProvider \in Sessions /\ turnPhase # "ended" /\ complete # <<>>
    /\ Len(kinds) + extra <= MaxPieces
    /\ kinds' = kinds \o [i \in 1..extra |-> k]
    /\ text' = [text EXCEPT ![k] = <<>>]
    /\ stream' = CASE ~Takes -> stream
                   [] streamProvider = "claude" -> Emitted(Flushed(stream), suffix)
                   [] suffix = <<>> -> stream
                   [] OTHER -> Pushed(stream, k, suffix)
    /\ Spoken(k, suffix)
    /\ closed' = IF text[k] # <<>> THEN closed \cup {k} ELSE closed
    /\ excused' = IF k \in closed \/ odd THEN excused \cup {c.of : c \in Range(news)}
                                        ELSE excused
    /\ UNCHANGED <<streamProvider, turnPhase, turns, first, streamed, wire, pending>>

Tool ==
    /\ Sends /\ kinds' = Append(kinds, "tool")
    /\ stream' = IF Takes THEN Emitted(Flushed(stream), <<Char(NextPiece, TRUE)>>) ELSE stream
    /\ UNCHANGED <<streamProvider, turnPhase, turns, first, text, streamed, resultText, wire, pending,
                   closed, excused>>

-----------------------------------------------------------------------------
(* A child writes a record, a line of its own, or for agy a character. It    *)
(* may be killed in the middle of that.                                      *)
Byte(p, part) == [of |-> p, part |-> part]
WrittenBytes(p, k) ==
    (IF k = "tool" THEN <<>> ELSE <<Byte(p, "lead"), Byte(p, "tail")>>)
    \o (IF streamProvider = "agy" THEN <<>> ELSE <<Byte(p, "close"), Byte(p, "newline")>>)
WriteRecord(k) ==
    /\ streamProvider \in Children /\ turnPhase = "live" /\ Len(kinds) < MaxPieces
    /\ streamProvider = "agy" => k = "message"
    /\ kinds' = Append(kinds, k)
    /\ \E n \in 1..Len(WrittenBytes(NextPiece, k)) :
         LET whole == n = Len(WrittenBytes(NextPiece, k)) IN
         /\ wire' = wire \o SubSeq(WrittenBytes(NextPiece, k), 1, n)
         /\ turnPhase' = IF whole THEN "live" ELSE "dying"
         /\ excused' = IF whole THEN excused ELSE excused \cup {NextPiece}
    /\ UNCHANGED <<streamProvider, turns, first, text, streamed, stream, resultText, pending, closed>>

(* Each chunk is decoded by itself: a character cut in two is two damaged    *)
(* ones.                                                                     *)
Decoded(chunk) ==
    LET Whole(i) == i < Len(chunk) /\ chunk[i].part = "lead" /\ chunk[i + 1].part = "tail"
        Item(i)  == IF chunk[i].part \in {"lead", "tail"}
                    THEN Char(chunk[i].of, Whole(i)) ELSE chunk[i]
        Second(i) == i > 1 /\ Whole(i - 1)
    IN FoldLeft(LAMBDA done, i : IF Second(i) THEN done ELSE Append(done, Item(i)),
                <<>>, [i \in 1..Len(chunk) |-> i])

(* IncrementalLineBuffer and parseJsonObject: a line that has its end counts.*)
IsMark(c, part) == "part" \in DOMAIN c /\ c.part = part
CutAt(items) == LET ends == {i \in DOMAIN items : IsMark(items[i], "newline")}
                IN IF ends = {} THEN 0 ELSE CHOOSE i \in ends : \A j \in ends : j <= i
RecordsIn(items) ==
    {items[i].of : i \in {j \in DOMAIN items : IsMark(items[j], "close")}}
ContentOf(items, p) ==
    IF kinds[p] = "tool" THEN <<Char(p, TRUE)>>
    ELSE SelectSeq(items, LAMBDA c : c.of = p /\ "ok" \in DOMAIN c)
HandleRecord(s, items, p) ==
    IF streamProvider = "cli" THEN Emitted(s, ContentOf(items, p))
    ELSE IF kinds[p] = "tool" THEN Emitted(Flushed(s), ContentOf(items, p))
    ELSE Pushed(s, kinds[p], ContentOf(items, p))
Handle(s, items) ==
    FoldLeft(LAMBDA t, p : HandleRecord(t, items, p), s,
             SetToSortSeq(RecordsIn(items), <))
TextOf(items) ==
    SelectSeq(items, LAMBDA c : /\ "ok" \in DOMAIN c /\ kinds[c.of] = "message"
                                /\ streamProvider = "agy" \/ c.of \in RecordsIn(items))

ReadWire(n) ==
    LET new   == Decoded(SubSeq(wire, 1, n))
        items == pending \o new
        cut   == CutAt(items)
        lines == IF streamProvider = "agy" THEN new ELSE SubSeq(items, 1, cut)
    IN
    /\ n \in 1..Len(wire) /\ UNCHANGED kinds
    /\ wire' = SubSeq(wire, n + 1, Len(wire))
    /\ pending' = IF streamProvider = "agy" THEN <<>> ELSE SubSeq(items, cut + 1, Len(items))
    /\ stream' = IF streamProvider = "agy" THEN Pushed(stream, "message", new)
                                     ELSE Handle(stream, lines)
    /\ resultText' = resultText \o TextOf(lines)
    /\ excused' = IF wire[n].part = "lead" THEN excused \cup {wire[n].of} ELSE excused
    /\ UNCHANGED <<streamProvider, turnPhase, turns, first, text, streamed, closed>>

(* close: the last line may lack its newline.                                *)
Close ==
    /\ streamProvider \in Children /\ turnPhase \in {"live", "dying"} /\ wire = <<>>
    /\ turnPhase' = "ended" /\ pending' = <<>> /\ UNCHANGED kinds
    /\ stream' = Flushed(Handle(stream, pending))
    /\ resultText' = resultText \o TextOf(pending)
    /\ UNCHANGED <<streamProvider, turns, first, text, streamed, wire, closed, excused>>

StreamNext ==
    \/ TimerFires \/ Begin \/ TakeUp \/ FinishTurn \/ LeaveSession \/ Tool \/ Close
    \/ \E k \in Kinds : Delta(k) \/ \E extra \in 0..2 : Completed(k, extra)
    \/ \E k \in Kinds \cup {"tool"} : WriteRecord(k)
    \/ \E n \in 1..Len(wire) : ReadWire(n)
StreamSpec == StreamInit /\ [][StreamNext]_streamVars

-----------------------------------------------------------------------------
(* The evidence of a turn is what was sent in it, in order, once, and when   *)
(* the turn is over all of it, and resultText is its message text. Excused   *)
(* are a message part that no delta brought after another streamed message   *)
(* of the turn, or in one that had begun before it (missingStreamSuffix), a  *)
(* character cut by a chunk (IncrementalLineBuffer.push), and a record its   *)
(* writer did not finish.                                                    *)
OwnOf(chars) == SelectSeq(chars, LAMBDA c : c.of > first)
TextIsWhole ==
    turnPhase \in {"live", "dying", "ended"} =>
        LET own == OwnOf(stream.said) IN
        /\ \A i, j \in DOMAIN own :
             i < j => own[i].of < own[j].of \/ (own[i].of = own[j].of /\ ~own[i].ok)
        /\ turnPhase = "ended" =>
             /\ \A p \in first + 1..Len(kinds) : p \in excused \/ Char(p, TRUE) \in Range(own)
             /\ streamProvider # "claude" =>
                  OwnOf(resultText) = SelectSeq(own, LAMBDA c : kinds[c.of] = "message")
=============================================================================
