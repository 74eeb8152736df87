--------------------------- MODULE FormatBuffers ---------------------------
(***************************************************************************)
(* The buffers that the bundled fmt writes into: each hands on what it     *)
(* holds to some target when it is full, and those of format_to_n stop at  *)
(* a limit.  And the messages that spdlog keeps in one of them: a          *)
(* log_msg_buffer is moved from holder to holder, into a queue and out,    *)
(* with two views into a text that lies in the object or in the heap.      *)
(* A behaviour is about one output, whose characters are numbered in the   *)
(* order in which they are written, or about the messages.                 *)
(***************************************************************************)
EXTENDS Naturals, Sequences, FiniteSets, SequencesExt

CONSTANTS
  BufferSize,     \* buffer_size of the buffers that are flushed
  InlineSize,     \* SIZE of basic_memory_buffer, inline_buffer_size
  MaxAlloc,       \* max_size of the allocator
  Limits,         \* the n of format_to_n
  Before,         \* lengths of what a container holds before
  Sep, ErrorStr,  \* lengths of SEP and ERROR_STR in format_error_code
  MaxWritten, MaxPiece,  \* bounds: characters written, and at once
  Holders,        \* positive numbers: places for messages
  Texts           \* the messages: a name and a payload

VARIABLES
  subject,        \* "output" or "messages"
  output,         \* the buffer
  written,        \* characters written so far
  surplus,        \* the largest reservation that was not filled
  ended,          \* "no", "out" when it was handed on, "error" after format_error_code
  messages        \* the memory, the heap's blocks in use, and who holds what

vars == <<subject, output, written, surplus, ended, messages>>

Junk == 0                                   \* memory nothing was written to
Junks(n) == [i \in 1 .. n |-> Junk]
Numbers(from, to) == [i \in 1 .. to - from |-> from + i]
Unlimited == MaxWritten + MaxPiece + 1      \* ~size_t()

-----------------------------------------------------------------------------
(* buffer and its kinds.  held is what lies at ptr_, of length size_;      *)
(* direct says that ptr_ is the target itself.                             *)
Buffer(kind, held, cap, limit) ==
  [kind |-> kind, held |-> held, cap |-> cap, limit |-> limit, count |-> 0,
   direct |-> kind \in {"array_n", "array"}, out |-> <<>>, stuck |-> FALSE]

Outputs ==
  {Buffer("iterator", <<>>, BufferSize, 0), Buffer("array", <<>>, Unlimited, 0),
   Buffer("counting", <<>>, BufferSize, 0), Buffer("memory", <<>>, InlineSize, 0)}
    \cup {Buffer("iterator_n", <<>>, BufferSize, n) : n \in Limits}
    \cup {Buffer("array_n", <<>>, n, n) : n \in Limits}
    \cup {Buffer("container", Numbers(0, n), n, 0) : n \in Before}

Size(b) == Len(b.held)

(* fixed_buffer_traits::limit, which counts what it is asked for.          *)
Limit(b) == Min({Size(b), IF b.limit > b.count THEN b.limit - b.count ELSE 0})
Counting(b) == [b EXCEPT !.count = @ + Size(b)]

FlushIterator(b) == [b EXCEPT !.out = @ \o b.held, !.held = <<>>]
FlushLimited(b) == [Counting(b) EXCEPT !.out = @ \o SubSeq(b.held, 1, Limit(b)), !.held = <<>>]

(* The first flush of an array turns to the buffer's own storage.          *)
FlushArray(b) ==
  IF b.direct
  THEN [FlushLimited(b) EXCEPT !.direct = FALSE, !.cap = BufferSize]
  ELSE [Counting(b) EXCEPT !.held = <<>>]

Flush(b) ==
  CASE b.kind = "iterator" -> FlushIterator(b)
    [] b.kind = "iterator_n" -> FlushLimited(b)
    [] b.kind = "array_n" -> FlushArray(b)

GrowFlushing(b) == IF Size(b) = b.cap THEN Flush(b) ELSE b
GrowContainer(b, capacity) == [b EXCEPT !.cap = capacity]
GrowCounting(b) == IF Size(b) # BufferSize THEN b ELSE [Counting(b) EXCEPT !.held = <<>>]

(* What basic_memory_buffer allocates for a size.                          *)
NewCapacity(cap, size) ==
  LET half_more == cap + cap \div 2
  IN IF size > half_more THEN size
     ELSE IF half_more > MaxAlloc THEN Max({size, MaxAlloc}) ELSE half_more

Grow(b, capacity) ==
  CASE b.kind \in {"iterator", "iterator_n", "array_n"} -> GrowFlushing(b)
    [] b.kind = "container" -> GrowContainer(b, capacity)
    [] b.kind = "counting" -> GrowCounting(b)
    [] b.kind = "memory" -> [b EXCEPT !.cap = NewCapacity(@, capacity)]
    [] b.kind = "array" -> b

TryReserve(b, capacity) == IF capacity > b.cap THEN Grow(b, capacity) ELSE b

Resized(b, count) == [b EXCEPT !.held = SubSeq(@ \o Junks(count), 1, Min({count, b.cap}))]
TryResize(b, count) == Resized(TryReserve(b, count), count)

Put(b, s) == [b EXCEPT !.held = @ \o s]
PushBack(b, c) == Put(TryReserve(b, Size(b) + 1), <<c>>)
PushAll(b, s) == FoldLeft(PushBack, b, s)

(* buffer::append, which takes as much at once as there is room for and    *)
(* would not end if there were none.                                       *)
RECURSIVE AppendChars(_, _)
AppendRoom(b, s, n) == IF n = 0 THEN [b EXCEPT !.stuck = TRUE] ELSE AppendChars(Put(b, SubSeq(s, 1, n)), SubSeq(s, n + 1, Len(s)))
AppendReserved(b, s) == AppendRoom(b, s, Min({b.cap - Size(b), Len(s)}))
AppendChars(b, s) == IF s = <<>> THEN b ELSE AppendReserved(TryReserve(b, Size(b) + Len(s)), s)

(* reserve, and a writer that fills what it reserved, or less.             *)
Reserve(b, n) == TryReserve(b, Size(b) + n)

(* to_pointer: the room for n characters if there is; otherwise they are   *)
(* written one by one.                                                     *)
FillAt(b, size, s) == [b EXCEPT !.held = SubSeq(@, 1, size) \o s \o SubSeq(@, size + Len(s) + 1, Len(@))]
WriteThrough(b, s) ==
  IF b.cap < Size(b) + Len(s) THEN PushAll(b, s)
  ELSE FillAt(TryResize(b, Size(b) + Len(s)), Size(b), s)

(* snprintf_float: again with more room while the text and its null do not *)
(* fit behind what is there.                                               *)
SnprintfFloat(b, s) ==
  IF Len(s) >= b.cap - Size(b)
  THEN WriteThrough(TryReserve(b, Len(s) + Size(b) + 1), s) ELSE WriteThrough(b, s)

(* format_error_code: the message is left out if the whole would not fit   *)
(* into the object.                                                        *)
FormatErrorCode(b, message, code) ==
  LET error_code_size == Sep + ErrorStr + code
      empty == TryResize(b, 0)
  IN IF message <= InlineSize - error_code_size
     THEN AppendChars(AppendChars(empty, Numbers(0, message + Sep)), Numbers(message + Sep, message + error_code_size))
     ELSE AppendChars(empty, Numbers(0, ErrorStr + code))

(* out() flushes, the destructor does again.                               *)
Out(b) == IF b.kind \in {"iterator", "iterator_n", "array_n"} THEN Flush(Flush(b)) ELSE b
(* count() of a limited or counting buffer.                                *)
Count(b) == b.count + Size(b)

-----------------------------------------------------------------------------
(* Steps of an output.                                                     *)
Write(b, n) == output' = b /\ written' = written + n /\ UNCHANGED <<subject, surplus, ended, messages>>
Text(n) == Numbers(written, written + n)
Open == subject = "output" /\ ended = "no"

AppendText == \E n \in 0 .. Min({MaxPiece, MaxWritten - written}) : Write(AppendChars(output, Text(n)), n)
PushOne == written < MaxWritten /\ Write(PushBack(output, written + 1), 1)
WriteDigits == \E n \in 1 .. Min({MaxPiece, MaxWritten - written}) : Write(WriteThrough(Reserve(output, n), Text(n)), n)
WriteHexFloat ==
  /\ output.kind = "memory"
  /\ \E n \in 1 .. Min({MaxPiece, MaxWritten - written}) : Write(SnprintfFloat(output, Text(n)), n)

(* A padded field reserves its announced size and may write less of it.    *)
WriteField ==
  /\ \E n \in 1 .. MaxPiece : \E m \in 0 .. Min({n, MaxWritten - written}) :
       /\ output' = PushAll(Reserve(output, n), Text(m))
       /\ written' = written + m
       /\ surplus' = Max({surplus, n - m})
  /\ UNCHANGED <<subject, ended, messages>>

ReportError ==
  /\ output.kind = "memory" /\ written = 0
  /\ \E message \in 0 .. InlineSize + 1, code \in 1 .. 2 :
       output' = FormatErrorCode(output, message, code) /\ written' = Size(output')
  /\ ended' = "error"
  /\ UNCHANGED <<subject, surplus, messages>>

Finish ==
  /\ output' = Out(output)
  /\ ended' = "out"
  /\ UNCHANGED <<subject, written, surplus, messages>>

OutputNext == Open /\ (AppendText \/ PushOne \/ WriteDigits \/ WriteHexFloat \/ WriteField \/ ReportError \/ Finish)

-----------------------------------------------------------------------------
(* Messages in memory buffers: at is the content of every place, of what   *)
(* each holder is.                                                         *)
Store(o) == <<"store", o>>
Block(i) == <<"heap", i>>
MaxBlocks == Cardinality(Holders) + 1
Places == {Store(o) : o \in Holders} \cup {Block(i) : i \in 1 .. MaxBlocks}
Fresh(st) == Block(Min({i \in 1 .. MaxBlocks : Block(i) \notin st.heap}))

View(at, from, len) == [at |-> at, from |-> from, len |-> len]
Shown(st, v) == SubSeq(st.at[v.at], v.from + 1, v.from + v.len)
Nothing(o) == [alive |-> FALSE, moved |-> FALSE, ptr |-> Store(o), size |-> 0, cap |-> 0,
               name |-> View(Store(o), 0, 0), payload |-> View(Store(o), 0, 0),
               text |-> [name |-> <<>>, payload |-> <<>>]]
NoMessages == [at |-> [p \in Places |-> <<>>], heap |-> {}, of |-> [o \in Holders |-> Nothing(o)]]

Deallocate(st, o) ==
  LET p == st.of[o].ptr
  IN IF p = Store(o) THEN st ELSE [st EXCEPT !.heap = @ \ {p}, !.at[p] = <<>>]

(* basic_memory_buffer::grow: a new block, the old one is given back.      *)
GrowInto(st, o, new, size) ==
  LET old == st.of[o]
  IN [Deallocate(st, o) EXCEPT !.heap = @ \cup {new}, !.at[new] = SubSeq(st.at[old.ptr], 1, old.size),
                               !.of[o].ptr = new, !.of[o].cap = NewCapacity(old.cap, size)]
ReserveIn(st, o, size) == IF size > st.of[o].cap THEN GrowInto(st, o, Fresh(st), size) ELSE st
PutIn(st, o, s) ==
  LET h == st.of[o]
  IN [st EXCEPT !.at[h.ptr] = SubSeq(@, 1, h.size) \o s, !.of[o].size = @ + Len(s)]
AppendIn(st, o, s) == PutIn(ReserveIn(st, o, st.of[o].size + Len(s)), o, s)

Construct(st, o) == [st EXCEPT !.of[o] = [Nothing(o) EXCEPT !.alive = TRUE, !.cap = InlineSize], !.at[Store(o)] = <<>>]

(* basic_memory_buffer::move.                                              *)
MoveBuffer(st, o, p) ==
  LET other == st.of[p]
      inline == other.ptr = Store(p)
      taken == [st EXCEPT !.of[o].ptr = IF inline THEN Store(o) ELSE other.ptr, !.of[o].cap = other.cap,
                          !.at[Store(o)] = IF inline THEN SubSeq(st.at[Store(p)], 1, other.size) ELSE @,
                          !.of[p].cap = IF inline THEN @ ELSE 0, !.of[p].ptr = Store(p)]
  IN [taken EXCEPT !.of[o].size = Min({other.size, taken.of[o].cap})]

(* log_msg's members are copied, views and all, and then set anew.         *)
CopyViews(st, o, p) ==
  [st EXCEPT !.of[o].name = st.of[p].name, !.of[o].payload = st.of[p].payload, !.of[o].text = st.of[p].text]
UpdateViews(st, o) ==
  LET h == st.of[o]
  IN [st EXCEPT !.of[o].name = View(h.ptr, 0, h.name.len), !.of[o].payload = View(h.ptr, h.name.len, h.payload.len),
                !.of[o].moved = FALSE]
Moved(st, p) == [st EXCEPT !.of[p].moved = TRUE]

FromMessage(st, o, text) ==
  UpdateViews(AppendIn(AppendIn([Construct(st, o) EXCEPT !.of[o].text = text, !.of[o].name.len = Len(text.name),
                                                         !.of[o].payload.len = Len(text.payload)],
                                o, text.name), o, text.payload), o)
CopyConstruct(st, o, p) ==
  UpdateViews(AppendIn(AppendIn(CopyViews(Construct(st, o), o, p), o, Shown(st, st.of[p].name)), o, Shown(st, st.of[p].payload)), o)
MoveConstruct(st, o, p) == Moved(UpdateViews(MoveBuffer(CopyViews(Construct(st, o), o, p), o, p), o), p)
CopyAssign(st, o, p) ==
  UpdateViews(AppendIn([CopyViews(st, o, p) EXCEPT !.of[o].size = 0], o, SubSeq(st.at[st.of[p].ptr], 1, st.of[p].size)), o)
MoveAssign(st, o, p) == Moved(UpdateViews(MoveBuffer(Deallocate(CopyViews(st, o, p), o), o, p), o), p)
Destroy(st, o) == [Deallocate(st, o) EXCEPT !.of[o] = Nothing(o), !.at[Store(o)] = <<>>]

(* What was moved from is only destroyed or assigned to, and nothing is    *)
(* assigned to itself: so the queues and the sinks use their messages.     *)
MessagesNext ==
  /\ subject = "messages"
  /\ UNCHANGED <<subject, output, written, surplus, ended>>
  /\ \E o \in Holders :
       \/ /\ ~messages.of[o].alive
          /\ \/ messages' = Construct(messages, o)
             \/ \E text \in Texts : messages' = FromMessage(messages, o, text)
       \/ messages.of[o].alive /\ messages' = Destroy(messages, o)
       \/ \E p \in Holders \ {o} :
            /\ messages.of[p].alive /\ ~messages.of[p].moved
            /\ messages' \in IF messages.of[o].alive THEN {CopyAssign(messages, o, p), MoveAssign(messages, o, p)}
                             ELSE {CopyConstruct(messages, o, p), MoveConstruct(messages, o, p)}

Init ==
  /\ subject \in {"output", "messages"}
  /\ output \in IF subject = "output" THEN Outputs ELSE {Buffer("memory", <<>>, InlineSize, 0)}
  /\ written = Size(output)
  /\ surplus = 0 /\ ended = "no"
  /\ messages = NoMessages

Next == OutputNext \/ MessagesNext

Spec == Init /\ [][Next]_vars

-----------------------------------------------------------------------------
(* No writer leaves the room of its buffer, append always gets on, and an  *)
(* error is reported without allocating memory.                            *)
StaysInRoom ==
  /\ Size(output) <= output.cap /\ ~output.stuck
  /\ ended = "error" => output.cap = InlineSize

(* The target ends up with what was written, once, in order, cut at the    *)
(* limit and nowhere else; a container keeps what it had, and gets nothing *)
(* more unless a writer announced more than it wrote.                      *)
AllHandedOn ==
  ended # "no" =>
    CASE output.kind = "iterator" -> output.out = Numbers(0, written)
      [] output.kind \in {"iterator_n", "array_n"} -> output.out = Numbers(0, Min({output.limit, written}))
      [] output.kind \in {"array", "memory"} -> output.held = Numbers(0, written)
      [] output.kind = "container" -> output.held = Numbers(0, written) /\ output.cap - written <= surplus
      [] OTHER -> TRUE

(* What format_to_n and formatted_size report is the length of the whole.  *)
CountedWhole == output.kind \in {"iterator_n", "array_n", "counting"} => Count(output) = written

(* A message can be read where its views say, in its own buffer, for as    *)
(* long as nobody took it.                                                 *)
TextsKept ==
  \A o \in Holders :
    LET h == messages.of[o]
    IN h.alive /\ ~h.moved =>
         /\ h.name.at = h.ptr /\ Shown(messages, h.name) = h.text.name
         /\ h.payload.at = h.ptr /\ Shown(messages, h.payload) = h.text.payload
         /\ h.size = Len(h.text.name) + Len(h.text.payload) /\ h.size <= h.cap

(* Every block in use has one owner that will give it back.                *)
BlocksOwned ==
  LET InHeap(o) == messages.of[o].alive /\ messages.of[o].ptr # Store(o)
  IN /\ messages.heap = {messages.of[o].ptr : o \in {x \in Holders : InHeap(x)}}
     /\ \A o, p \in Holders : InHeap(o) /\ InHeap(p) /\ o # p => messages.of[o].ptr # messages.of[p].ptr

(* What is written arrives whole and is counted, and messages keep their   *)
(* texts however they are moved.                                           *)
BuffersRight == StaysInRoom /\ AllHandedOn /\ CountedWhole /\ TextsKept /\ BlocksOwned
=============================================================================
