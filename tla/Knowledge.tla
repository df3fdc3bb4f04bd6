----------------------------- MODULE Knowledge ------------------------------
(***************************************************************************)
(* The knowledge base (knowledge/) over the local vector store with its    *)
(* file (memory/store): documents are cut into chunks, the chunks stored   *)
(* one by one, and passages searched for.                                  *)
(*   A text is a sequence of words, each with its length and the rank of   *)
(* the separator after it: 1 for a blank line, 2 for a line's end, 3 for a *)
(* sentence's, 4 for a space.                                              *)
(***************************************************************************)
EXTENDS Naturals, Sequences, FiniteSets, SequencesExt

CONSTANTS
  Library,     \* Library: versions of documents: [source, text]
  Chunkers,    \* Chunkers: how they are cut: [how: fixed, paragraph or recursive,
               \*   size, overlap]
  MaxIngests   \* bound: the documents ingested in all

Word == [len : Nat, sep : 1..4]
ASSUME LibraryAssumption == \A doc \in Library : doc.text \in Seq(Word)

VARIABLES
  chunker,     \* chunker: the knowledge base's
  entries,     \* entries: the store
  disk,        \* disk: its file: whether it is whole, and the entries in it
  ingests,     \* ingests: the documents that are being ingested
  finished     \* finished: history: the documents completely ingested since
               \*   the store last lost entries, with their chunks

knowledgeVars == <<chunker, entries, disk, ingests, finished>>

KnowledgeInit ==
  /\ chunker \in Chunkers
  /\ entries = <<>>
  /\ disk = [whole |-> TRUE, entries |-> <<>>]
  /\ ingests = <<>>
  /\ finished = {}

-----------------------------------------------------------------------------
(* Cutting a text.                                                         *)

SepSize(w) == IF w.sep \in {1, 3} THEN 2 ELSE 1
Size(text) ==
  FoldLeft(LAMBDA n, w : n + w.len + SepSize(w), 0, Front(text)) + Last(text).len

(* The words of a text in parts: a word goes with the part before it if it *)
(* joins that.                                                             *)
Grouped(text, Joins(_, _)) ==
  FoldLeft(LAMBDA parts, w :
             IF parts # <<>> /\ Joins(Last(parts), w)
             THEN [parts EXCEPT ![Len(parts)] = Append(@, w)]
             ELSE Append(parts, <<w>>),
           <<>>, text)

(* Words fill a chunk up to its size, with single spaces between them.     *)
Spaced(text) == [i \in DOMAIN text |-> [text[i] EXCEPT !.sep = 4]]
Fixed(text, size) ==
  Grouped(Spaced(text), LAMBDA part, w : Size(Append(part, w)) <= size)

(* A text is split after each separator of a rank.                         *)
SplitAt(text, rank) == Grouped(text, LAMBDA part, w : Last(part).sep # rank)

(* What does not fit is split by the next rank, down to single words.      *)
Cut(part, rank, size) ==
  IF Size(part) <= size THEN <<part>> ELSE SplitAt(part, rank)
SplitMore(parts, rank, size) ==
  FlattenSeq([i \in DOMAIN parts |-> Cut(parts[i], rank, size)])
Recursively(text, size) ==
  SplitMore(SplitMore(SplitMore(SplitMore(<<text>>, 1, size), 2, size), 3, size), 4, size)

(* Each chunk but the first begins with the end of the one before it.      *)
Overlapped(chunks, overlap) ==
  [i \in DOMAIN chunks |->
     [head |-> IF i = 1 \/ overlap = 0 THEN <<>> ELSE chunks[i - 1], text |-> chunks[i]]]

(* Nothing comes of a text without words.                                  *)
Chunks(text) ==
  CASE text = <<>> -> <<>>
    [] text # <<>> /\ chunker.how = "fixed" -> Overlapped(Fixed(text, chunker.size), 0)
    [] text # <<>> /\ chunker.how = "paragraph" -> Overlapped(SplitAt(text, 1), 0)
    [] OTHER -> Overlapped(Recursively(text, chunker.size), chunker.overlap)

-----------------------------------------------------------------------------
(* Storing and finding.                                                    *)

(* A document with no chunks is ingested at once.                          *)
StartIngest(doc) ==
  /\ Len(ingests) < MaxIngests
  /\ LET none == Chunks(doc.text) = <<>> IN
     /\ ingests' = Append(ingests, [doc |-> doc, at |-> 1,
                                    stage |-> IF none THEN "done" ELSE "storing"])
     /\ finished' = IF none THEN finished \cup {doc} ELSE finished
  /\ UNCHANGED <<chunker, entries, disk>>

EntryOf(doc, at) == [source |-> doc.source, at |-> at, chunk |-> Chunks(doc.text)[at]]

(* The id of an entry is made of all it holds; an equal one is replaced.   *)
Put(e) == IF e \in Range(entries) THEN entries ELSE Append(entries, e)

(* Under the store's lock a chunk is put in and the file made anew, empty  *)
(* first and then with all entries.                                        *)
StoreChunk(n) ==
  /\ ingests[n].stage = "storing"
  /\ \A m \in DOMAIN ingests : ingests[m].stage # "writing"
  /\ entries' = Put(EntryOf(ingests[n].doc, ingests[n].at))
  /\ disk' = [disk EXCEPT !.whole = FALSE]
  /\ ingests' = [ingests EXCEPT ![n].stage = "writing"]
  /\ UNCHANGED <<chunker, finished>>

WriteStore(n) ==
  /\ ingests[n].stage = "writing"
  /\ disk' = [whole |-> TRUE, entries |-> entries]
  /\ IF ingests[n].at < Len(Chunks(ingests[n].doc.text))
     THEN /\ ingests' = [ingests EXCEPT ![n].stage = "storing", ![n].at = @ + 1]
          /\ UNCHANGED finished
     ELSE /\ ingests' = [ingests EXCEPT ![n].stage = "done"]
          /\ finished' = finished \cup {ingests[n].doc}
  /\ UNCHANGED <<chunker, entries>>

(* The file cannot be made anew: it stays as it was, with the chunk in the *)
(* store only, and the document is given up.                               *)
CreateFails(n) ==
  /\ ingests[n].stage = "storing"
  /\ \A m \in DOMAIN ingests : ingests[m].stage # "writing"
  /\ entries' = Put(EntryOf(ingests[n].doc, ingests[n].at))
  /\ ingests' = [ingests EXCEPT ![n].stage = "failed"]
  /\ UNCHANGED <<chunker, disk, finished>>

(* The embedder fails, or the write, which leaves a torn file; the chunks  *)
(* stored so far stay.                                                     *)
IngestFails(n) ==
  /\ ingests[n].stage \in {"storing", "writing"}
  /\ ingests' = [ingests EXCEPT ![n].stage = "failed"]
  /\ UNCHANGED <<chunker, entries, disk, finished>>

(* The process dies; what starts next reads the file, which is as good as  *)
(* empty if it is torn.                                                    *)
CrashStore ==
  /\ entries' = IF disk.whole THEN disk.entries ELSE <<>>
  /\ disk' = [disk EXCEPT !.whole = TRUE, !.entries = entries']
  /\ finished' = IF disk.whole THEN finished ELSE {}
  /\ ingests' = [n \in DOMAIN ingests |->
                  IF ingests[n].stage \in {"storing", "writing"}
                  THEN [ingests[n] EXCEPT !.stage = "failed"] ELSE ingests[n]]
  /\ UNCHANGED chunker

KnowledgeNext ==
  \/ \E doc \in Library : StartIngest(doc)
  \/ \E n \in DOMAIN ingests :
       StoreChunk(n) \/ CreateFails(n) \/ WriteStore(n) \/ IngestFails(n)
  \/ CrashStore

-----------------------------------------------------------------------------
(* Properties.                                                             *)

WordsOf(chunks) == FlattenSeq([i \in DOMAIN chunks |-> chunks[i].text])
Bare(text) == [i \in DOMAIN text |-> text[i].len]

(* However a text is cut, no word is lost, doubled or moved.  A chunk,     *)
(* without its overlap, that is longer than the size is a single word: the *)
(* "at most maxRunes" of chunker.go:25-26 does not hold for it             *)
(* (chunker.go:29-115).  What was completely ingested is found until a     *)
(* crash tears the file; an entry is in the store once and is of a         *)
(* document that was ingested, though several are at once                  *)
(* (knowledge.go:88-114, store/memory.go:43-62).  A file that is whole may *)
(* be behind the store, never ahead of it, and has every chunk of what was *)
(* completely ingested (store/memory.go:120-131).                          *)
KnowledgeFaithful ==
  /\ \A n \in DOMAIN ingests :
       LET text == ingests[n].doc.text
           chunks == Chunks(text) IN
       /\ Bare(WordsOf(chunks)) = Bare(text)
       /\ chunker.how # "paragraph" =>
            \A i \in DOMAIN chunks :
              Len(chunks[i].text) = 1 \/ Size(chunks[i].text) <= chunker.size
  /\ \A doc \in finished : \A at \in DOMAIN Chunks(doc.text) :
       EntryOf(doc, at) \in Range(entries)
  /\ IsInjective(entries)
  /\ \A e \in Range(entries) : \E n \in DOMAIN ingests :
       /\ e.source = ingests[n].doc.source
       /\ e.at <= ingests[n].at /\ e.chunk = Chunks(ingests[n].doc.text)[e.at]
  /\ disk.whole =>
       /\ IsPrefix(disk.entries, entries)
       /\ \A doc \in finished : \A at \in DOMAIN Chunks(doc.text) :
            EntryOf(doc, at) \in Range(disk.entries)
=============================================================================
