--------------------------- MODULE MessageBuilder ---------------------------
(***************************************************************************)
(* Building a message section by section, into a buffer that ends, with    *)
(* name compression (base/message_builder.rs).                             *)
(*                                                                         *)
(* The message is a sequence of cells.  A label, the root label, a pointer *)
(* and a piece of anything else take one cell each; names are sequences of *)
(* labels without the root label.  Labels that differ in case only are one *)
(* label.  Positions count from 0, as they do in the code.                 *)
(***************************************************************************)
EXTENDS Naturals, Sequences, FiniteSets

LOCAL INSTANCE SequencesExt

CONSTANTS
    Compressors,    \* the compressors to use, of "none", "static", "tree", "hash"
    Capacities,     \* sizes of the octets builder
    StreamMax,      \* the largest length a StreamTarget can have (2^16 - 1)
    PointerSpan,    \* positions a pointer can tell apart (2^14)
    StaticMax,      \* entries of a StaticCompressor (24)
    CountMax,       \* the largest count in a header (2^16 - 1)
    HeaderLen,      \* cells of the header
    Limits,         \* push limits
    Questions,      \* what is pushed: sequences of names and Data
    Records

VARIABLES
    compressor,     \* the compressor in use
    capacity,       \* the size of the octets builder
    buf,            \* octets, length counter, and what the compressor remembers
    section,        \* which builder the user has
    start,          \* where the section of each builder starts
    counts,         \* the counts in the header
    limit,          \* the push limit, or capacity + 1 for none
    items           \* what was pushed and is still there: section and names with positions

bvars == <<compressor, capacity, buf, section, start, counts, limit, items>>

Data == [part |-> "data"]
NameOf(name) == [part |-> "name", name |-> name]
Label(l) == [part |-> "label", label |-> l]
RootLabel == [part |-> "root", label |-> "."]

\* pos | 0xC000, which is read as its lower 14 bits.
Pointer(pos) == [part |-> "pointer", to |-> pos % PointerSpan]

\* Positions the compressors remember: those below 0xC000.
Remembered(pos) == pos < 3 * PointerSpan

\* The position HashCompressor gives the root name (0xFFFF).
RootPos == 4 * PointerSpan - 1

\* Label::iter_slice, at most n labels: SliceLabelsIter.  A pointer to itself, which
\* the code would follow for ever, reads as nothing.
RECURSIVE iter_slice(_, _, _)
iter_slice(octets, pos, n) ==
    IF n = 0 \/ pos >= Len(octets) THEN << >>
    ELSE LET cell == octets[pos + 1] IN
      CASE cell.part = "label"   -> <<cell.label>> \o iter_slice(octets, pos + 1, n - 1)
        [] cell.part = "root"    -> <<cell.label>>
        [] cell.part = "pointer" -> IF cell.to >= pos THEN << >> ELSE iter_slice(octets, cell.to, n)
        [] OTHER                 -> << >>

\* The name at pos is the given one.
NameAt(octets, pos, name) ==
    iter_slice(octets, pos, Len(name) + 1) = Append(name, RootLabel.label)

----------------------------------------------------------------------------
(* Targets.  An operation on a target that has failed changes nothing, as  *)
(* every caller returns at the first error.                                *)

\* OctetsBuilder::append_slice of the octets builder, then update_shim.
append_slice(b, cell) ==
    CASE ~ b.ok                                  -> b
      [] b.ok /\ Len(b.octets) >= capacity       -> [b EXCEPT !.ok = FALSE]
      [] b.ok /\ Len(b.octets) < capacity /\ Len(b.octets) >= StreamMax ->
           [b EXCEPT !.octets = Append(@, cell), !.ok = FALSE]
      [] b.ok /\ Len(b.octets) < capacity /\ Len(b.octets) < StreamMax ->
           [b EXCEPT !.octets = Append(@, cell), !.shim = Len(b.octets) + 1]

\* Mutant: the compressor forgets nothing.
MTruncate(b, len) == [b EXCEPT !.octets = SubSeq(@, 1, len), !.shim = len, !.ok = TRUE]

\* Mutant: an entry at the very end of what is kept stays.
MTruncateLate(b, len) ==
    LET t == [b EXCEPT !.octets = SubSeq(@, 1, len), !.shim = len, !.ok = TRUE]
        cut == SelectInSeq(b.entries, LAMBDA pos : pos > len)
    IN  [t EXCEPT !.entries = IF cut = 0 THEN @ ELSE SubSeq(@, 1, cut - 1),
                  !.tree = {e \in @ : e.value <= len},
                  !.names = {e \in @ : e.head <= len}]

\* Truncate::truncate of the compressors and of StreamTarget.
Truncate(b, len) ==
    LET t == [b EXCEPT !.octets = SubSeq(@, 1, len), !.shim = len, !.ok = TRUE]
        cut == SelectInSeq(b.entries, LAMBDA pos : pos >= len)
    IN  IF Remembered(len)
        THEN [t EXCEPT !.entries = IF cut = 0 THEN @ ELSE SubSeq(@, 1, cut - 1),
                       !.tree = {e \in @ : e.value < len},
                       !.names = {e \in @ : e.head < len}]
        ELSE t

\* The labels of a name one by one, then the root label.
AppendLabels(b, name) ==
    append_slice(FoldLeft(LAMBDA t, l : append_slice(t, Label(l)), b, name), RootLabel)

\* get of StaticCompressor (the first entry) and of TreeCompressor.
get(b, name) ==
    IF compressor = "static"
    THEN LET hits == SelectSeq(b.entries, LAMBDA pos : NameAt(b.octets, pos, name))
         IN  {pos \in Range(hits) : pos = hits[1]}
    ELSE {e.value : e \in {n \in b.tree : n.name = name}}

\* insert of StaticCompressor and of TreeCompressor: whether it is possible, and its effect.
Insertable(b) ==
    /\ Remembered(Len(b.octets))
    /\ compressor = "static" => Len(b.entries) < StaticMax

insert(b, name) ==
    IF compressor = "static"
    THEN [b EXCEPT !.entries = Append(@, Len(b.octets))]
    ELSE [b EXCEPT !.tree = @ \cup {[name |-> name, value |-> Len(b.octets)]}]

\* append_compressed_name of StaticCompressor and TreeCompressor.
RECURSIVE AppendStep(_, _)
AppendStep(b, name) ==
    IF ~ b.ok THEN b
    ELSE IF name = << >> THEN append_slice(b, RootLabel)
    ELSE IF get(b, name) # {} THEN append_slice(b, Pointer(CHOOSE pos \in get(b, name) : TRUE))
    ELSE IF ~ Insertable(b) THEN AppendLabels(b, name)
    ELSE AppendStep(append_slice(insert(b, name), Label(Head(name))), Tail(name))

\* HashEntry::eq, as far as it is about the label.
HeadIs(b, e, label) == e.head < Len(b.octets) /\ b.octets[e.head + 1] = Label(label)

\* The loop of HashCompressor that looks labels up from the end of the name.
RECURSIVE LookUp(_, _, _)
LookUp(b, name, position) ==
    LET hits == {e \in b.names : name # << >> /\ HeadIs(b, e, Last(name)) /\ e.tail = position}
    IN  IF hits = {} THEN [left |-> name, position |-> position]
        ELSE LookUp(b, Front(name), (CHOOSE e \in hits : TRUE).head)

\* The loop that writes the labels that are left and remembers them.
WriteLabels(b, left, position) ==
    FoldLeft(LAMBDA t, i :
                LET head == Len(t.octets)
                    u    == append_slice(t, Label(left[i]))
                IN  IF u.ok /\ Remembered(head)
                    THEN [u EXCEPT !.names = @ \cup {[head |-> head,
                              tail |-> IF i = Len(left) THEN position ELSE head + 1]}]
                    ELSE u,
             b, [i \in 1 .. Len(left) |-> i])

\* Composer::append_compressed_name.
append_compressed_name(b, name) ==
    CASE compressor = "none" -> AppendLabels(b, name)
      [] compressor = "hash" ->
           LET found == LookUp(b, name, RootPos)
               t     == WriteLabels(b, found.left, found.position)
           IN  append_slice(t, IF found.position # RootPos THEN Pointer(found.position) ELSE RootLabel)
      [] OTHER -> AppendStep(b, name)

\* compose_question and compose_record: names and other data in order.
Compose(b, item) ==
    FoldLeft(LAMBDA t, p : IF p.part = "name" /\ t.ok THEN append_compressed_name(t, p.name)
                           ELSE append_slice(t, Data), b, item)

----------------------------------------------------------------------------
(* Builders.                                                               *)

Sections == <<"message", "question", "answer", "authority", "additional">>
Index(s) == CHOOSE i \in 1 .. 5 : Sections[i] = s

\* MessageBuilder::from_target.
BInit ==
    /\ compressor \in Compressors
    /\ capacity \in Capacities
    /\ buf = [octets |-> [i \in 1 .. HeaderLen |-> Data], shim |-> HeaderLen, ok |-> TRUE,
              entries |-> << >>, tree |-> {}, names |-> {}]
    /\ section = "message"
    /\ start = [s \in Range(Sections) |-> HeaderLen]
    /\ counts = [s \in Range(Sections) |-> 0]
    /\ limit = capacity + 1
    /\ items = << >>

\* Where the names of an item are, given the targets between its parts.
NamesOf(item, b) ==
    {[pos |-> Len(Compose(b, SubSeq(item, 1, i - 1)).octets), name |-> item[i].name] :
       i \in {j \in 1 .. Len(item) : item[j].part = "name"}}

\* What MessageBuilder::push asks for before it keeps what was written.
Pushed(b) == b.ok /\ Len(b.octets) < limit /\ counts[section] < CountMax

\* MessageBuilder::push, for push of the four section builders and for opt.
Push(item) ==
    LET pos == Len(buf.octets)
        b   == Compose(buf, item)
    IN  /\ section # "message"
        /\ IF Pushed(b)
           THEN /\ buf' = b
                /\ counts' = [counts EXCEPT ![section] = @ + 1]
                /\ items' = Append(items, [section |-> section, from |-> pos, to |-> Len(b.octets),
                                           names |-> NamesOf(item, buf)])
           ELSE /\ buf' = Truncate(b, pos)
                /\ UNCHANGED <<counts, items>>
        /\ UNCHANGED <<compressor, capacity, section, start, limit>>

\* new of the next section's builder.
Advance ==
    /\ section # "additional"
    /\ section' = Sections[Index(section) + 1]
    /\ start' = [start EXCEPT ![section'] = Len(buf.octets)]
    /\ UNCHANGED <<compressor, capacity, buf, counts, limit, items>>

\* What rewind does.
Rewound ==
    /\ buf' = Truncate(buf, start[section])
    /\ counts' = [counts EXCEPT ![section] = 0]
    /\ items' = SelectSeq(items, LAMBDA it : it.section # section)

\* rewind of a section builder.
Rewind ==
    /\ section # "message"
    /\ Rewound
    /\ UNCHANGED <<compressor, capacity, section, start, limit>>

\* Back to the builder of the section before, which rewinds this one.
Back ==
    /\ section # "message"
    /\ Rewound
    /\ section' = Sections[Index(section) - 1]
    /\ UNCHANGED <<compressor, capacity, start, limit>>

\* set_push_limit and clear_push_limit.
SetPushLimit ==
    /\ limit' \in (Limits \cup {capacity + 1}) \ {limit}
    /\ UNCHANGED <<compressor, capacity, buf, section, start, counts, items>>

BNext ==
    \/ \E q \in Questions : section = "question" /\ Push(q)
    \/ \E r \in Records : section # "question" /\ Push(r)
    \/ Advance
    \/ Rewind
    \/ Back
    \/ SetPushLimit

BSpec == BInit /\ [][BNext]_bvars

----------------------------------------------------------------------------
(* Properties.                                                             *)

(* Every name of the message, read at the place it was written, pointers   *)
(* followed, is the name that was pushed: pointers never lead to what a    *)
(* failed push or a rewind took away (truncate of the compressors) or to   *)
(* another name.                                                           *)
NamesReadBack ==
    \A i \in 1 .. Len(items) : \A n \in items[i].names : NameAt(buf.octets, n.pos, n.name)

(* The header, then the items in order, are all of the message; the counts *)
(* in the header and the length in front of a stream message say so after  *)
(* failed pushes, rewinds and ways back.                                   *)
MessageWhole ==
    /\ \A s \in Range(Sections) : counts[s] = Len(SelectSeq(items, LAMBDA it : it.section = s))
    /\ \A i \in 1 .. Len(items) :
         items[i].from = IF i = 1 THEN HeaderLen ELSE items[i - 1].to
    /\ Len(buf.octets) = IF items = << >> THEN HeaderLen ELSE Last(items).to
    /\ buf.shim = Len(buf.octets) /\ buf.ok

(* What was pushed can be read back from the message: all of it, and every *)
(* name through whatever pointers the compressor put in its place.         *)
MessageReadsBack == MessageWhole /\ NamesReadBack

(* A push that fails leaves nothing behind, neither in the message nor in  *)
(* what the compressor remembers, wherever in a name the buffer ended.     *)
FailedPushLeavesNothing == [][items' = items => buf' = buf]_bvars
=============================================================================
