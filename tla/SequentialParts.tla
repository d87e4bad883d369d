--------------------------- MODULE SequentialParts ---------------------------
(***************************************************************************)
(* The parts of the program that run by themselves, each for all its small *)
(* inputs: a behaviour is of one part.  The tokens written and read        *)
(* (XmlRoundTrip) and the heap of locks (ExpiryHeap) have steps of their   *)
(* own; for a struct type (XmlTypeInfo), a text (XmlText), an If header    *)
(* (IfHeader) and a message to the drive (Crypto), the input grows piece   *)
(* by piece and the part's operations are compared with what they should   *)
(* do for it.                                                              *)
(***************************************************************************)
EXTENDS XmlRoundTrip, XmlTypeInfo

CONSTANTS
  Pieces(_),  \* of an input of this part
  Seeds(_),   \* inputs to begin with
  MaxMore,    \* bound, for each part: pieces added to a seed
  Nodes,      \* of the heap
  Expiries,   \* times at which they expire
  RootNames,  \* XMLNames of the struct
  Key,        \* of the client
  ServerKey,
  xorKeySeed(_), xorClientKey, BlockSize, KeySize

ASSUME KeyAssumption == Len(Key) = KeySize /\ Len(ServerKey) = KeySize

H == INSTANCE IfHeader
T == INSTANCE XmlText
C == INSTANCE Crypto
Q == INSTANCE ExpiryHeap

VARIABLES
  part,  \* the part
  input, \* its input, unless it has steps
  more,  \* the pieces added to the seed
  heap   \* byExpiry

Growing == {"struct", "text", "header", "message"}

Init ==
  /\ part \in Growing \cup {"tokens", "heap"}
  /\ input \in Seeds(part)
  /\ more = 0
  /\ heap = Q!NewHeap(Nodes)
  /\ TokenInit

Grow ==
  /\ part \in Growing /\ more < MaxMore[part]
  /\ \E piece \in Pieces(part) : input' = Append(input, piece)
  /\ more' = more + 1
  /\ UNCHANGED << part, heap, tokenVars >>

Queue ==
  /\ part = "heap"
  /\ \E n \in Nodes \ heap.queued, t \in Expiries : heap' = Q!Queue(heap, n, t)
  /\ UNCHANGED << part, input, more, tokenVars >>

Unqueue ==
  /\ part = "heap"
  /\ \E n \in heap.queued : heap' = Q!Unqueue(heap, n)
  /\ UNCHANGED << part, input, more, tokenVars >>

Encodes(step) == part = "tokens" /\ step /\ UNCHANGED << part, input, more, heap >>

Starts == Encodes(EncodeStart)
Ends   == Encodes(EncodeEnd)
Rest   == Encodes(EncodeRest)

Next == Grow \/ Queue \/ Unqueue \/ Starts \/ Ends \/ Rest

Spec == Init /\ [][Next]_<< part, input, more, heap, tokenVars >>

-----------------------------------------------------------------------------
(* Properties.                                                             *)

\* The field declared i-th, with a name and a value no other field has; one with
\* omitempty is empty, and left out.
FieldAt(i) ==
  input[i] @@ [name |-> "F" \o ToString(i),
               val  |-> CASE input[i].nil                  -> Nil
                          [] "omitempty" \in input[i].flags -> Vals(<< >>)
                          [] OTHER                         -> Vals(<< Text("v" \o ToString(i)) >>)]

\* Every struct type that getTypeInfo accepts is read back as it was written
\* (marshal.go, read.go, typeinfo.go): each field gets its own value, whatever
\* parents, name spaces and shadowed fields there are.
StructsReadBack ==
  part = "struct" =>
    \A name \in RootNames : StructReadsBack([i \in DOMAIN input |-> FieldAt(i)], name)

\* Any document's text is read for what it says, and any string that was
\* escaped is read back, names of files among them (xml.go, prop.go).
TextsReadBack == part = "text" => T!TextReadsBack(input)

\* An If header is taken for exactly the lists its tokens form (if.go).
HeadersExact == part = "header" => H!HeaderExact(input)

\* A request and its answer come through encryption, for every length
\* (crypto.go).
MessagesReadBack == part = "message" => C!CipherReadsBack(input, Key, ServerKey)

\* The heap of locks holds what was queued, at the indexes the nodes have, with
\* the first to expire in front (lock.go).
HeapExact == Q!HeapExact(heap)
=============================================================================
