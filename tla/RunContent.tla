----------------------------- MODULE RunContent -----------------------------
(***************************************************************************)
(* What one run makes of a transcript (worker/processor.go from its        *)
(* chunking on): the chunks, their embeddings batch by batch, the rows,    *)
(* and then the summary with its second attempt.  JobPipeline has the same *)
(* steps as transactions on rows; here it is their contents that count.    *)
(***************************************************************************)
EXTENDS TextWindows, SequencesExt

CONSTANTS
  MaxTextLength, MaxPhraseLength, MaxRepeats,  \* bounds of the texts
  BatchSize,   \* EMBEDDING_BATCH_SIZE, of embedSections and of EmbedBatch alike
  MaxTokens    \* SUMMARY_MAX_TOKENS

ASSUME BoundsAssumption == {MaxTextLength, MaxPhraseLength, MaxRepeats} \subseteq Nat
ASSUME BatchSizeAssumption == BatchSize \in Nat \ {0}   \* internal/config/config.go:86
ASSUME MaxTokensAssumption == MaxTokens \in Nat \ {0}   \* summarizer.New

Strings(n) == UNION {[1..m -> Chars] : m \in 0..n}

\* Every short text, and short phrases repeated into long ones.
Texts ==
  Strings(MaxTextLength)
    \union {FlattenSeq([i \in 1..n |-> phrase]) : phrase \in Strings(MaxPhraseLength), n \in 1..MaxRepeats}

summaryAttempts == 2

VARIABLES
  text,      \* the content of the transcript
  phase,     \* where the run is
  chunks,    \* what Chunk returned
  rows,      \* the chunks with an embedding, in the order of chunk_index
  stored,    \* the rows InsertChunks has stored
  sections,  \* those the present attempt of the summary has yet to read
  combined,  \* the sections it has answered
  attempt,   \* attempts begun
  summary    \* the row of summaries: none, or its status and what it is made of

vars == <<text, phase, chunks, rows, stored, sections, combined, attempt, summary>>

NoSummary == [status |-> "none", of |-> <<>>]
NoVector  == {}   \* the zero Vector of embedSections

Init ==
  /\ text \in Texts
  /\ phase = "chunking"
  /\ chunks = <<>> /\ rows = <<>> /\ stored = <<>>
  /\ sections = <<>> /\ combined = <<>> /\ attempt = 0
  /\ summary = NoSummary

-----------------------------------------------------------------------------
(* Chunks and embeddings *)

SplitText ==
  /\ phase = "chunking" /\ phase' = "embedding"
  /\ chunks' = Chunk(text)
  /\ UNCHANGED <<text, rows, stored, sections, combined, attempt, summary>>

\* texts: the next BatchSize chunks, or what is left.
Batch == SubSeq(chunks, Len(rows) + 1, Min({Len(rows) + BatchSize, Len(chunks)}))

\* Variant: the embeddings are taken as they come.
AcceptedUnchecked(data) == TRUE

\* embedOne: as many embeddings as texts.
Accepted(data) == Len(data) = Len(Batch)

\* The provider embeds every text, or returns one embedding too few.
Data == {Batch, Tail(Batch)}

\* A turn of the loop of embedSections; a text without an embedding would get the
\* zero vector.
EmbedBatch ==
  /\ phase = "embedding" /\ Batch # <<>>
  /\ \E data \in Data :
       /\ Accepted(data)
       /\ rows' = rows \o [i \in DOMAIN Batch |->
                             [content |-> Batch[i],
                              embedding |-> IF i <= Len(data) THEN data[i] ELSE NoVector]]
  /\ UNCHANGED <<text, phase, chunks, stored, sections, combined, attempt, summary>>

\* EmbedBatch returns an error, and the run fails with nothing stored.
EmbedFails ==
  /\ phase = "embedding" /\ Batch # <<>>
  /\ phase' = "failed"
  /\ UNCHANGED <<text, chunks, rows, stored, sections, combined, attempt, summary>>

\* InsertChunks, CompleteJob; a transcript without content gets no summary.
StoreRows ==
  /\ phase = "embedding" /\ Batch = <<>>
  /\ stored' = rows
  /\ phase' = IF text = <<>> THEN "done" ELSE "completed"
  /\ UNCHANGED <<text, chunks, rows, sections, combined, attempt, summary>>

-----------------------------------------------------------------------------
(* The summary *)

\* Variant: the sections answered in the first attempt are kept.
BeginSummaryKeepsCombined ==
  /\ phase = "completed" /\ attempt < summaryAttempts
  /\ phase' = "summarizing" /\ attempt' = attempt + 1
  /\ sections' = IF EstimateTokens(text) <= MaxTokens THEN <<>> ELSE Sections(text, MaxTokens)
  /\ UNCHANGED <<text, chunks, rows, stored, combined, summary>>

\* An attempt of generateSummary: Summarize from the start.
BeginSummary ==
  /\ phase = "completed" /\ attempt < summaryAttempts
  /\ phase' = "summarizing" /\ attempt' = attempt + 1
  /\ sections' = IF EstimateTokens(text) <= MaxTokens THEN <<>> ELSE Sections(text, MaxTokens)
  /\ combined' = <<>>
  /\ UNCHANGED <<text, chunks, rows, stored, summary>>

\* direct, on the next section.
SummarizeSection ==
  /\ phase = "summarizing" /\ sections # <<>>
  /\ combined' = Append(combined, Head(sections))
  /\ sections' = Tail(sections)
  /\ UNCHANGED <<text, phase, chunks, rows, stored, attempt, summary>>

RecordSummary(s) ==
  /\ phase' = "done"
  /\ summary' = s
  /\ UNCHANGED <<text, chunks, rows, stored, sections, combined, attempt>>

\* direct, on the whole text or on the answers joined; recordSummary.
FinishSummary ==
  /\ phase = "summarizing" /\ sections = <<>>
  /\ RecordSummary([status |-> "completed",
                    of |-> IF combined = <<>> THEN <<text>> ELSE combined])

\* The model fails, and with it the attempt.
SummarizeFails ==
  /\ phase = "summarizing"
  /\ phase' = "completed"
  /\ UNCHANGED <<text, chunks, rows, stored, sections, combined, attempt, summary>>

\* After the last attempt the summary is recorded as failed.
GiveUpSummary ==
  /\ phase = "completed" /\ attempt = summaryAttempts
  /\ RecordSummary([status |-> "failed", of |-> <<>>])

Next ==
  \/ SplitText \/ EmbedBatch \/ EmbedFails \/ StoreRows
  \/ BeginSummary \/ SummarizeSection \/ FinishSummary \/ SummarizeFails \/ GiveUpSummary

Spec == Init /\ [][Next]_vars

-----------------------------------------------------------------------------
(* Properties *)

\* Positions of the words and stops.
Words == {k \in DOMAIN text : text[k] \notin Blank}

(***************************************************************************)
(* "Each chunk overlaps the previous one by 1 sentence" (chunker.go:25):   *)
(* every word of the text is in a chunk, the chunks follow the text, two   *)
(* neighbours share one sentence, no two others share a word, and no chunk *)
(* repeats a part of another.                                              *)
(***************************************************************************)
ChunksCoverText ==
  phase # "chunking" =>
    LET Shared(i, j) == chunks[i] \intersect chunks[j] IN
      /\ UNION Range(chunks) = Words
      /\ \A i, j \in DOMAIN chunks : i < j =>
           /\ IF j = i + 1 THEN Shared(i, j) \in Range(Sentences(text)) ELSE Shared(i, j) = {}
           /\ \A k \in chunks[i], m \in chunks[j] : k <= m \/ {k, m} \subseteq Shared(i, j)
           /\ ~(chunks[j] \subseteq chunks[i])

(***************************************************************************)
(* What is stored is every chunk, in order and with the embedding of its   *)
(* own text, whatever the batches and however many embeddings come back.   *)
(***************************************************************************)
EmbeddingsAligned ==
  phase \in {"completed", "summarizing", "done"} =>
    stored = [i \in DOMAIN chunks |-> [content |-> chunks[i], embedding |-> chunks[i]]]

(***************************************************************************)
(* "sections whose estimated tokens stay safely below the budget"          *)
(* (summarizer.go:85): none is empty or above half the budget, and one     *)
(* that ends inside a sentence had no sentence end to be cut at.           *)
(***************************************************************************)
SectionsFit ==
  \A s \in DOMAIN sections :
    /\ sections[s] # <<>>
    /\ 2 * EstimateTokens(sections[s]) <= MaxTokens
    /\ s < Len(sections) =>
         \/ Last(sections[s]) = "stop" /\ Head(sections[s + 1]) = "space"
         \/ \A i \in 1..Len(sections[s]) - 1 :
              ~(sections[s][i] = "stop" /\ sections[s][i + 1] = "space")

(***************************************************************************)
(* A summary shown as completed is one of the whole text, each part of it  *)
(* read once and in order, also when the first attempt had read some.      *)
(***************************************************************************)
SummaryOfWholeText == summary.status = "completed" => FlattenSeq(summary.of) = text
=============================================================================
