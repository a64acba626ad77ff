----------------------------- MODULE TextWindows -----------------------------
(***************************************************************************)
(* How a transcript is cut up: the sentence windows of core/chunker, whose *)
(* chunks are searched, and the sections of core/summarizer.  A text is a  *)
(* sequence over Chars: the punctuation that ends a sentence, a space, a   *)
(* line break, and anything else.                                          *)
(***************************************************************************)
EXTENDS Naturals, Sequences

Chars == {"word", "stop", "space", "newline"}

\* What TrimSpace drops; cutAtSentenceBoundary looks for a space only.
Blank == {"space", "newline"}

chunkSize == 3
stride    == chunkSize - 1

-----------------------------------------------------------------------------
(* core/chunker *)

\* A match of sentenceSplitter ends here: a longest run of punctuation.
SplitsAfter(text, i) ==
  text[i] = "stop" /\ (i = Len(text) \/ text[i + 1] # "stop")

\* splitSentences: the pieces between two splits, and the rest, trimmed; as the
\* positions of each, since TrimSpace drops only blanks.
Sentences(text) ==
  LET SentenceOf(i) ==   \* the positions of i's piece
        {j \in 1..Len(text) :
           \A k \in 1..Len(text) : SplitsAfter(text, k) => (k < i <=> k < j)}
      starts == {i \in 1..Len(text) :
                   /\ text[i] \notin Blank
                   /\ \A j \in SentenceOf(i) : j < i => text[j] \in Blank}
      nth[n \in 0..Len(text)] ==   \* the sentences that start in the first n places
        IF n = 0 THEN <<>>
        ELSE IF n \in starts
               THEN Append(nth[n - 1], {j \in SentenceOf(n) : text[j] \notin Blank})
               ELSE nth[n - 1]
  IN nth[Len(text)]

\* Variant: the loop runs while there is a start left.
WindowsToTheEnd(n) ==
  LET from[start \in 0..n + stride] ==
        IF start >= n THEN <<>>
        ELSE LET end == IF start + chunkSize > n THEN n ELSE start + chunkSize
             IN <<start + 1 .. end>> \o from[start + stride]
  IN from[0]

\* The loop of Chunk over n sentences: the sentences of each chunk.
Windows(n) ==
  LET from[start \in 0..n] ==
        LET end == IF start + chunkSize > n THEN n ELSE start + chunkSize
            window == start + 1 .. end
        IN IF end = n THEN <<window>> ELSE <<window>> \o from[start + stride]
  IN IF n = 0 THEN <<>> ELSE from[0]

\* Chunk: the words and stops of each chunk.
Chunk(text) ==
  LET sentences == Sentences(text)
      windows == Windows(Len(sentences))
  IN [w \in DOMAIN windows |-> UNION {sentences[s] : s \in windows[w]}]

-----------------------------------------------------------------------------
(* core/summarizer *)

EstimateTokens(text) == Len(text) \div 4

\* Variant: the cut is where the budget ends.
CutAtLimit(text, maxChars) == IF maxChars > Len(text) THEN Len(text) ELSE maxChars

\* cutAtSentenceBoundary: the last sentence end within maxChars, if any.
CutAtSentenceBoundary(text, maxChars) ==
  LET limit == IF maxChars > Len(text) THEN Len(text) ELSE maxChars
      boundaries == {i \in 1..limit :
                       text[i] = "stop" /\ i < Len(text) /\ text[i + 1] = "space"}
  IN IF boundaries = {} THEN limit
     ELSE CHOOSE i \in boundaries : \A j \in boundaries : j <= i

\* splitSections: half the budget per section, four characters to a token.
Sections(text, maxTokens) ==
  LET from[i \in 1..Len(text) + 1] ==
        LET rest == SubSeq(text, i, Len(text))
            cut == CutAtSentenceBoundary(rest, maxTokens * 2)
        IN IF rest = <<>> THEN <<>>
           ELSE IF Len(rest) <= maxTokens * 2 THEN <<rest>>
           ELSE <<SubSeq(rest, 1, cut)>> \o from[i + cut]
  IN from[1]
=============================================================================
