-------------------------- MODULE RunContentProofs --------------------------
(***************************************************************************)
(* The contents of a run are right for any texts, batches and budget:      *)
(* nothing of the transcript is lost or doubled on its way to the chunks,  *)
(* their rows and the summary.                                             *)
(***************************************************************************)
EXTENDS RunContent, TextWindowsProofs

(***************************************************************************)
(* The inductive invariant: the local variables of run(), embedSections    *)
(* and generateSummary between two provider calls.                         *)
(***************************************************************************)
Phases == {"chunking", "embedding", "failed", "completed", "summarizing", "done"}

\* The row of chunk c.
RowOf(c) == [content |-> c, embedding |-> c]

ChunksInv ==
  /\ text \in Seq(Chars) /\ phase \in Phases
  /\ phase = "chunking" => chunks = <<>>
  /\ phase # "chunking" => chunks = Chunk(text)

\* The rows are those of the first chunks, and in the end those of all.
RowsInv ==
  /\ Len(rows) \in 0..Len(chunks)
  /\ rows = [i \in 1..Len(rows) |-> RowOf(chunks[i])]
  /\ phase \in {"completed", "summarizing", "done"} => Len(rows) = Len(chunks) /\ stored = rows

\* What is read and what is to be read is the text, unless it is read at once.
SummaryInv ==
  /\ sections \in Seq(Seq(Chars)) /\ combined \in Seq(Seq(Chars))
  /\ Fit(sections, MaxTokens)
  /\ phase = "summarizing" =>
       \/ combined = <<>> /\ sections = <<>>
       \/ FlattenSeq(combined \o sections) = text
  /\ SummaryOfWholeText

IInv == ChunksInv /\ RowsInv /\ SummaryInv

-----------------------------------------------------------------------------
(* The initial state *)

LEMMA TextsAreSequences == Texts \subseteq Seq(Chars)
<1> USE BoundsAssumption
<1>1. \A n \in Nat : Strings(n) \subseteq Seq(Chars)
  <2>1. ASSUME NEW n \in Nat, NEW m \in 0..n, NEW x \in [1..m -> Chars]
        PROVE  x \in Seq(Chars)
    OBVIOUS
  <2> QED
    BY <2>1 DEF Strings
<1>2. ASSUME NEW n \in Nat, NEW phrase \in Seq(Chars)
      PROVE  FlattenSeq([i \in 1..n |-> phrase]) \in Seq(Chars)
  <2>1. [i \in 1..n |-> phrase] \in Seq(Seq(Chars))
    OBVIOUS
  <2> QED
    BY <2>1, FlattenType
<1>3. MaxTextLength \in Nat /\ MaxPhraseLength \in Nat /\ 1..MaxRepeats \subseteq Nat
  OBVIOUS
<1>4. ASSUME NEW x \in Texts
      PROVE  x \in Seq(Chars)
  <2> DEFINE repeated == {FlattenSeq([i \in 1..n |-> phrase]) :
                            phrase \in Strings(MaxPhraseLength), n \in 1..MaxRepeats}
  <2>0. Texts = Strings(MaxTextLength) \union repeated
    BY DEF Texts
  <2>1. CASE x \in Strings(MaxTextLength)
    BY <1>1, <1>3, <2>1
  <2>2. CASE x \in repeated
    <3>1. PICK phrase \in Strings(MaxPhraseLength), n \in 1..MaxRepeats :
                 x = FlattenSeq([i \in 1..n |-> phrase])
      BY <2>2
    <3>2. phrase \in Seq(Chars) /\ n \in Nat
      BY <1>1, <1>3
    <3> QED
      BY <1>2, <3>1, <3>2
  <2> HIDE DEF repeated
  <2> QED
    BY <2>0, <2>1, <2>2
<1> QED
  BY <1>4

LEMMA InitInvariant == Init => IInv
<1> SUFFICES ASSUME Init
             PROVE  IInv
  OBVIOUS
<1>1. ChunksInv
  BY TextsAreSequences DEF Init, ChunksInv, Phases
<1>2. RowsInv
  BY DEF Init, RowsInv
<1>3. SummaryInv
  BY DEF Init, SummaryInv, Fit, SummaryOfWholeText, NoSummary
<1> QED
  BY <1>1, <1>2, <1>3 DEF IInv

-----------------------------------------------------------------------------
(* Chunks and rows *)

(***************************************************************************)
(* A batch is the chunks that follow those with a row; when it is empty    *)
(* there are rows for all.                                                 *)
(***************************************************************************)
LEMMA BatchIs ==
  ASSUME ChunksInv, RowsInv, phase = "embedding"
  PROVE  /\ Batch \in Seq(SUBSET Nat) /\ chunks \in Seq(SUBSET Nat)
         /\ Len(rows) + Len(Batch) <= Len(chunks)
         /\ \A i \in 1..Len(Batch) : Batch[i] = chunks[Len(rows) + i]
         /\ Batch = <<>> => Len(rows) = Len(chunks)
<1> DEFINE r == Len(rows)
           l == Len(chunks)
           e == Min({r + BatchSize, l})
<1>1. chunks \in Seq(SUBSET Nat)
  BY ChunksAre DEF ChunksInv
<1>2. r \in 0..l /\ l \in Nat
  BY <1>1 DEF RowsInv
<1>3. BatchSize \in Nat \ {0}
  BY BatchSizeAssumption
<1> HIDE DEF r
<1>4. e = IF r + BatchSize <= l THEN r + BatchSize ELSE l
  BY <1>2, <1>3 DEF Min
<1>5. Batch = SubSeq(chunks, r + 1, e)
  BY DEF Batch, r
<1> HIDE DEF e, l
<1>6. r + 1 \in Nat /\ e \in r..l /\ (e = r <=> r = l)
  BY <1>2, <1>3, <1>4
<1>7. /\ Batch \in Seq(SUBSET Nat) /\ Len(Batch) = e - r
      /\ \A i \in 1..e - r : Batch[i] = chunks[r + i]
  <2>1. \A i \in r + 1..e : chunks[i] \in SUBSET Nat
    BY <1>1, <1>2, <1>6 DEF l
  <2>2. /\ Batch \in Seq(SUBSET Nat)
        /\ Len(Batch) = IF r + 1 <= e THEN e - (r + 1) + 1 ELSE 0
        /\ \A i \in 1..e - (r + 1) + 1 : Batch[i] = chunks[r + 1 + i - 1]
    BY <1>2, <1>5, <1>6, <2>1, SubSeqProperties
  <2>3. r \in Nat /\ e \in Nat /\ r <= e
    BY <1>2, <1>6
  <2>4. \A i \in 1..e - r : r + 1 + i - 1 = r + i
    BY <2>3
  <2> QED
    BY <2>2, <2>3, <2>4
<1> QED
  BY <1>1, <1>2, <1>6, <1>7 DEF r, l

\* The provider's embeddings are as many as the texts, so they are of these.
LEMMA EmbedBatchRows ==
  ASSUME ChunksInv, RowsInv, EmbedBatch
  PROVE  RowsInv'
<1> DEFINE r == Len(rows)
           b == Len(Batch)
           new == [i \in 1..b |-> RowOf(Batch[i])]
           R == [content : SUBSET Nat, embedding : SUBSET Nat]
<1>1. phase = "embedding" /\ phase' = "embedding" /\ chunks' = chunks
  BY DEF EmbedBatch
<1>2. /\ Batch \in Seq(SUBSET Nat) /\ chunks \in Seq(SUBSET Nat) /\ b \in Nat
      /\ Len(rows) + Len(Batch) <= Len(chunks)
      /\ \A i \in 1..Len(Batch) : Batch[i] = chunks[Len(rows) + i]
      /\ DOMAIN Batch = 1..b
  BY <1>1, BatchIs
<1>3. PICK data \in Data :
        /\ Len(data) = b
        /\ rows' = rows \o [i \in DOMAIN Batch |->
                              [content |-> Batch[i],
                               embedding |-> IF i <= Len(data) THEN data[i] ELSE NoVector]]
  BY DEF EmbedBatch, Accepted
<1>4. data = Batch
  <2>1. Batch # <<>> => Len(Tail(Batch)) = b - 1
    BY <1>2
  <2> QED
    BY <1>2, <1>3, <2>1 DEF EmbedBatch, Data
<1>5. rows' = rows \o new
  BY <1>2, <1>3, <1>4 DEF RowOf
<1>6. /\ rows \in Seq(R) /\ r \in Nat /\ r <= Len(chunks)
      /\ \A i \in 1..r : rows[i] = RowOf(chunks[i])
  <2>1. r \in Nat /\ r <= Len(chunks) /\ rows = [i \in 1..r |-> RowOf(chunks[i])]
    BY <1>2 DEF RowsInv
  <2> HIDE DEF r
  <2>2. \A i \in 1..r : RowOf(chunks[i]) \in R
    BY <1>2, <2>1 DEF RowOf
  <2> QED
    BY <2>1, <2>2
<1>7. /\ new \in Seq(R) /\ Len(new) = b /\ \A i \in 1..b : new[i] = RowOf(chunks[r + i])
  <2>1. \A i \in 1..b : RowOf(Batch[i]) \in R
    BY <1>2 DEF RowOf
  <2> QED
    BY <1>2, <2>1
<1> HIDE DEF new, R, r, b
<1>8. /\ rows \o new \in Seq(R) /\ Len(rows \o new) = r + b
      /\ \A i \in 1..r + b : (rows \o new)[i] = RowOf(chunks[i])
  <2>1. /\ rows \o new \in Seq(R) /\ Len(rows \o new) = r + b
        /\ \A i \in 1..r + b : (rows \o new)[i] = IF i <= r THEN rows[i] ELSE new[i - r]
    BY <1>6, <1>7 DEF r
  <2>2. ASSUME NEW i \in 1..r + b, ~(i <= r)
        PROVE  new[i - r] = RowOf(chunks[i])
    <3>1. i - r \in 1..b /\ r + (i - r) = i
      BY <1>2, <1>6, <2>2
    <3> QED
      BY <1>7, <3>1
  <2>3. \A i \in 1..r + b : i <= r => i \in 1..r
    BY <1>2, <1>6
  <2> QED
    BY <1>6, <2>1, <2>2, <2>3
<1>9. Len(rows') = r + b /\ r + b \in 0..Len(chunks)
  BY <1>2, <1>5, <1>6, <1>8 DEF r, b
<1>10. rows' = [i \in 1..r + b |-> RowOf(chunks[i])]
  <2> DEFINE all == rows \o new
  <2>1. all \in Seq(R) /\ Len(all) = r + b /\ \A i \in 1..r + b : all[i] = RowOf(chunks[i])
    BY <1>8
  <2>2. rows' = all
    BY <1>5
  <2> HIDE DEF all
  <2>3. all = [i \in 1..Len(all) |-> all[i]]
    BY <2>1
  <2> QED
    BY <2>1, <2>2, <2>3
<1> QED
  BY <1>1, <1>9, <1>10 DEF RowsInv

LEMMA NextChunks ==
  ASSUME ChunksInv, [Next]_vars
  PROVE  ChunksInv'
<1>1. CASE SplitText
  BY <1>1 DEF ChunksInv, Phases, SplitText
<1>2. CASE ~SplitText
  <2>1. text' = text /\ chunks' = chunks
    BY <1>2 DEF Next, vars, EmbedBatch, EmbedFails, StoreRows, BeginSummary, SummarizeSection,
                FinishSummary, SummarizeFails, GiveUpSummary, RecordSummary
  <2>2. phase' = phase \/ (phase # "chunking" /\ phase' \in Phases \ {"chunking"})
    BY <1>2 DEF Next, vars, Phases, EmbedBatch, EmbedFails, StoreRows, BeginSummary,
                SummarizeSection, FinishSummary, SummarizeFails, GiveUpSummary, RecordSummary
  <2> QED
    BY <2>1, <2>2 DEF ChunksInv
<1> QED
  BY <1>1, <1>2

LEMMA NextRows ==
  ASSUME ChunksInv, RowsInv, [Next]_vars
  PROVE  RowsInv'
<1>1. CASE SplitText
  <2>1. Len(rows) = 0 /\ rows = [i \in 1..0 |-> RowOf(chunks[i])]
    BY <1>1 DEF ChunksInv, RowsInv, SplitText
  <2>2. chunks' \in Seq(SUBSET Nat)
    BY <1>1, ChunksAre DEF ChunksInv, SplitText
  <2>3. rows = [i \in 1..Len(rows) |-> RowOf(chunks'[i])]
    BY <2>1
  <2> QED
    BY <1>1, <2>1, <2>2, <2>3 DEF SplitText, RowsInv
<1>2. CASE EmbedBatch
  BY <1>2, EmbedBatchRows
<1>3. CASE StoreRows
  <2>1. Len(rows) = Len(chunks)
    BY <1>3, BatchIs DEF StoreRows
  <2> QED
    BY <1>3, <2>1 DEF StoreRows, RowsInv
<1>4. CASE ~(SplitText \/ EmbedBatch \/ StoreRows)
  <2>1. rows' = rows /\ chunks' = chunks /\ stored' = stored
    BY <1>4 DEF Next, vars, EmbedFails, BeginSummary, SummarizeSection,
                FinishSummary, SummarizeFails, GiveUpSummary, RecordSummary
  <2>2. phase' \in {"completed", "summarizing", "done"} =>
          phase \in {"completed", "summarizing", "done"}
    BY <1>4 DEF Next, vars, EmbedFails, BeginSummary, SummarizeSection,
                FinishSummary, SummarizeFails, GiveUpSummary, RecordSummary
  <2> QED
    BY <2>1, <2>2 DEF RowsInv
<1> QED
  BY <1>1, <1>2, <1>3, <1>4

-----------------------------------------------------------------------------
(* The summary *)

\* Sections keep their fit when the first has been read.
LEMMA TailFits ==
  ASSUME NEW v \in Seq(Seq(Chars)), v # <<>>, NEW m \in Nat, Fit(v, m)
  PROVE  Fit(Tail(v), m)
<1>1. /\ Tail(v) \in Seq(Seq(Chars)) /\ Len(Tail(v)) = Len(v) - 1 /\ Len(v) \in Nat \ {0}
      /\ DOMAIN Tail(v) = 1..Len(v) - 1
      /\ \A s \in 1..Len(v) - 1 : Tail(v)[s] = v[s + 1]
  BY HeadTailProperties
<1>2. ASSUME NEW s \in 1..Len(v) - 1
      PROVE  FitAt(Tail(v), s, m)
  <2>1. FitAt(v, s + 1, m)
    <3>1. s + 1 \in DOMAIN v
      BY <1>1
    <3> QED
      BY <3>1 DEF Fit
  <2>2. Tail(v)[s] = v[s + 1]
    BY <1>1
  <2>3. s < Len(Tail(v)) => s + 1 < Len(v) /\ Tail(v)[s + 1] = v[(s + 1) + 1]
    BY <1>1
  <2> QED
    BY <2>1, <2>2, <2>3 DEF FitAt
<1> QED
  BY <1>1, <1>2 DEF Fit

\* Reading a section moves it from what is left to what is read.
LEMMA HeadToTheLeft ==
  ASSUME NEW T, NEW u \in Seq(T), NEW v \in Seq(T), v # <<>>
  PROVE  Append(u, Head(v)) \o Tail(v) = u \o v
<1>1. Head(v) \in T /\ Tail(v) \in Seq(T) /\ <<Head(v)>> \in Seq(T)
  BY HeadTailProperties
<1>2. Append(u, Head(v)) = u \o <<Head(v)>>
  BY <1>1, AppendIsConcat
<1>3. (u \o <<Head(v)>>) \o Tail(v) = u \o (<<Head(v)>> \o Tail(v))
  BY <1>1, ConcatAssociative
<1>4. <<Head(v)>> \o Tail(v) = v
  BY <1>1
<1> QED
  BY <1>2, <1>3, <1>4

(***************************************************************************)
(* A section moves from what is to be read to what is read, and an attempt *)
(* begins with nothing read.                                               *)
(***************************************************************************)
LEMMA NextSummary ==
  ASSUME ChunksInv, SummaryInv, [Next]_vars
  PROVE  SummaryInv'
<1>0. MaxTokens \in Nat \ {0} /\ text \in Seq(Chars) /\ text' = text
  <2>1. text' = text
    BY DEF Next, vars, SplitText, EmbedBatch, EmbedFails, StoreRows, BeginSummary, SummarizeSection,
           FinishSummary, SummarizeFails, GiveUpSummary, RecordSummary
  <2> QED
    BY <2>1, MaxTokensAssumption DEF ChunksInv
<1>1. CASE BeginSummary
  <2>1. /\ combined' = <<>> /\ summary' = summary
        /\ sections' = <<>> \/ sections' = Sections(text, MaxTokens)
    BY <1>1 DEF BeginSummary
  <2>2. CASE sections' = <<>>
    BY <1>0, <2>1, <2>2 DEF SummaryInv, Fit, SummaryOfWholeText
  <2>3. CASE sections' = Sections(text, MaxTokens)
    <3>1. /\ sections' \in Seq(Seq(Chars)) /\ Fit(sections', MaxTokens)
          /\ FlattenSeq(sections') = Rest(text, 1)
      BY <1>0, <2>3, SectionsAre DEF SectionsFrom
    <3>2. Rest(text, 1) = text /\ <<>> \o sections' = sections'
      BY <1>0, <3>1 DEF Rest
    <3> QED
      BY <1>0, <2>1, <3>1, <3>2 DEF SummaryInv, SummaryOfWholeText
  <2> QED
    BY <2>1, <2>2, <2>3
<1>2. CASE SummarizeSection
  <2>1. /\ phase = "summarizing" /\ sections # <<>> /\ summary' = summary
        /\ combined' = Append(combined, Head(sections)) /\ sections' = Tail(sections)
    BY <1>2 DEF SummarizeSection
  <2>2. sections \in Seq(Seq(Chars)) /\ combined \in Seq(Seq(Chars)) /\ Fit(sections, MaxTokens)
    BY DEF SummaryInv
  <2>3. sections' \in Seq(Seq(Chars)) /\ combined' \in Seq(Seq(Chars))
    BY <2>1, <2>2
  <2>4. Fit(sections', MaxTokens)
    BY <1>0, <2>1, <2>2, TailFits
  <2>5. combined' \o sections' = combined \o sections
    BY <2>1, <2>2, HeadToTheLeft
  <2>6. FlattenSeq(combined \o sections) = text
    BY <2>1 DEF SummaryInv
  <2> QED
    BY <1>0, <2>1, <2>3, <2>4, <2>5, <2>6 DEF SummaryInv, SummaryOfWholeText
<1>3. CASE FinishSummary
  <2>1. /\ phase' = "done" /\ sections = <<>>
        /\ sections' = sections /\ combined' = combined
        /\ summary' = [status |-> "completed",
                        of |-> IF combined = <<>> THEN <<text>> ELSE combined]
    BY <1>3 DEF FinishSummary, RecordSummary
  <2>2. CASE combined = <<>>
    <3>1. FlattenSeq(<<text>>) = text
      BY <1>0, FlattenOne
    <3> QED
      BY <1>0, <2>1, <2>2, <3>1 DEF SummaryInv, SummaryOfWholeText
  <2>3. CASE combined # <<>>
    <3>1. combined \o sections = combined /\ FlattenSeq(combined \o sections) = text
      BY <1>3, <2>1, <2>3 DEF SummaryInv, FinishSummary
    <3> QED
      BY <1>0, <2>1, <2>3, <3>1 DEF SummaryInv, SummaryOfWholeText
  <2> QED
    BY <2>2, <2>3
<1>4. CASE GiveUpSummary
  BY <1>4 DEF GiveUpSummary, RecordSummary, SummaryInv, SummaryOfWholeText
<1>5. CASE ~(BeginSummary \/ SummarizeSection \/ FinishSummary \/ GiveUpSummary)
  <2>1. /\ sections' = sections /\ combined' = combined /\ summary' = summary
        /\ phase' = "summarizing" => phase = "summarizing"
    BY <1>5 DEF Next, vars, SplitText, EmbedBatch, EmbedFails, StoreRows, SummarizeFails
  <2> QED
    BY <1>0, <2>1 DEF SummaryInv, SummaryOfWholeText
<1> QED
  BY <1>1, <1>2, <1>3, <1>4, <1>5

-----------------------------------------------------------------------------
(* The theorems *)

LEMMA Invariance == Spec => []IInv
<1>1. Init => IInv
  BY InitInvariant
<1>2. IInv /\ [Next]_vars => IInv'
  BY NextChunks, NextRows, NextSummary DEF IInv
<1> QED
  BY <1>1, <1>2, PTL DEF Spec

(***************************************************************************)
(* Chunk of chunker.go covers a transcript of any length: each word is in  *)
(* a chunk, and neighbours overlap in one sentence and nothing else does.  *)
(***************************************************************************)
THEOREM ChunkSafety == Spec => []ChunksCoverText
<1>1. IInv => ChunksCoverText
  <2> SUFFICES ASSUME IInv, phase # "chunking"
               PROVE  ChunksCoverText
    BY DEF ChunksCoverText
  <2>1. Covers(chunks, text)
    BY ChunksAre DEF IInv, ChunksInv
  <2> QED
    BY <2>1, Zenon DEF ChunksCoverText, Covers, Words, WordsOf
<1> QED
  BY <1>1, Invariance, PTL

(***************************************************************************)
(* embedSections (processor.go) gives each chunk the embedding of its own  *)
(* text, for any EMBEDDING_BATCH_SIZE, because embedOne refuses answers of *)
(* another length.                                                         *)
(***************************************************************************)
THEOREM EmbeddingSafety == Spec => []EmbeddingsAligned
<1>1. IInv => EmbeddingsAligned
  <2> SUFFICES ASSUME IInv, phase \in {"completed", "summarizing", "done"}
               PROVE  stored = [i \in DOMAIN chunks |->
                                  [content |-> chunks[i], embedding |-> chunks[i]]]
    BY DEF EmbeddingsAligned
  <2>1. chunks \in Seq(SUBSET Nat)
    BY ChunksAre DEF IInv, ChunksInv
  <2>2. stored = [i \in 1..Len(chunks) |-> RowOf(chunks[i])]
    BY DEF IInv, RowsInv
  <2> QED
    BY <2>1, <2>2 DEF RowOf
<1> QED
  BY <1>1, Invariance, PTL

(***************************************************************************)
(* splitSections (summarizer.go) keeps every section below half the        *)
(* budget, for any SUMMARY_MAX_TOKENS, and cuts inside a sentence only     *)
(* where it has no choice.                                                 *)
(***************************************************************************)
THEOREM SectionSafety == Spec => []SectionsFit
<1>1. IInv => SectionsFit
  BY DEF IInv, SummaryInv, SectionsFit, Fit, FitAt
<1> QED
  BY <1>1, Invariance, PTL

(***************************************************************************)
(* generateSummary records as completed only a summary of the whole text,  *)
(* each section read once, also in its second attempt.                     *)
(***************************************************************************)
THEOREM SummarySafety == Spec => []SummaryOfWholeText
<1>1. IInv => SummaryOfWholeText
  BY DEF IInv, SummaryInv
<1> QED
  BY <1>1, Invariance, PTL
=============================================================================
