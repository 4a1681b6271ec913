--------------------------- MODULE GeminiAnalyzer ---------------------------
(***************************************************************************)
(* The Gemini adapter (gemini/analyzer.ts): the prompts it asks one after  *)
(* another about a meeting, a candidate to be judged or a week, each with  *)
(* its retries and one repair; a long transcript goes in blocks, and what  *)
(* was heard in them is consolidated.                                      *)
(***************************************************************************)
EXTENDS SequencesExt, Naturals

CONSTANTS
  Transcripts,   \* sequences of segments
  Consolidated,  \* lists of tasks the model may make of the blocks
  Threshold,     \* chunkThresholdChars
  BlockSize,     \* chunkSizeChars
  MaxRetries

VARIABLES
  consulting,  \* the operation under way, or how the last one ended
  usage,       \* what it is going to report
  answered     \* requests the model answered, and are paid for (history)

geminiVars == <<consulting, usage, answered>>

Segment == [text: Nat, speaker: Nat]
HeardTask == [topic: Nat, confidence: Nat, dated: BOOLEAN, owned: BOOLEAN]

ASSUME GeminiAssumption ==
  /\ Transcripts \subseteq Seq(Segment) /\ Consolidated \subseteq Seq(HeardTask)
  /\ Threshold \in Nat /\ BlockSize \in Nat /\ MaxRetries \in Nat

NoUsage == [tokens |-> 0, calls |-> 0]
NotConsulting == [step |-> "idle"]
Verdicts == {"shown", "none", "human"}

GeminiTypeOK ==
  /\ consulting.step \in {"idle", "asking", "returned", "failed"}
  /\ consulting.step # "idle" =>
       /\ consulting.kind \in {"analyze", "reconcile", "digest"}
       /\ consulting.transcript \in Transcripts
       /\ consulting.at \in DOMAIN consulting.prompts
       /\ consulting.attempt \in 0..MaxRetries /\ consulting.repairing \in BOOLEAN
       /\ consulting.verdict \in Verdicts /\ consulting.tasks \in Seq(HeardTask)
  /\ usage \in [tokens: Nat, calls: Nat] /\ answered \in Nat

GeminiInit ==
  /\ consulting = NotConsulting
  /\ usage = NoUsage
  /\ answered = 0

----------------------------------------------------------------------------
(* The prompts of an operation.                                             *)

TextOf(segments) == FoldLeft(LAMBDA n, s : n + s.text, 0, segments)

SizeOf(segment) == segment.text + segment.speaker + 1

NoBlocks == [done |-> <<>>, current |-> <<>>, size |-> 0]

AddSegment(blocks, s) ==
  IF blocks.size + SizeOf(s) > BlockSize /\ blocks.current # <<>>
  THEN [done |-> Append(blocks.done, blocks.current), current |-> <<s>>, size |-> SizeOf(s)]
  ELSE [blocks EXCEPT !.current = Append(@, s), !.size = @ + SizeOf(s)]

(* Mutant: the block that is being filled when the segments end is lost.    *)
SplitSegmentsWhenFull(segments) == FoldLeft(AddSegment, NoBlocks, segments).done

SplitSegments(segments) ==
  LET blocks == FoldLeft(AddSegment, NoBlocks, segments) IN
  IF blocks.current = <<>> THEN blocks.done ELSE Append(blocks.done, blocks.current)

Prompt(about, segments, notes) == [about |-> about, segments |-> segments, notes |-> notes]

(* A transcript is long by its text alone; blocks count the speakers too.   *)
(* The notes go with the first block.                                       *)
AnalyzePrompts(transcript) ==
  IF TextOf(transcript) <= Threshold THEN <<Prompt("transcript", transcript, TRUE)>>
  ELSE LET blocks == SplitSegments(transcript) IN
       Append([i \in DOMAIN blocks |-> Prompt("transcript", blocks[i], i = 1)],
              Prompt("consolidate", <<>>, FALSE))

BeginConsulting(kind, transcript) ==
  /\ consulting.step # "asking"
  /\ consulting' =
       [step |-> "asking", kind |-> kind, transcript |-> transcript,
        prompts |-> IF kind = "analyze" THEN AnalyzePrompts(transcript)
                    ELSE <<Prompt(kind, <<>>, FALSE)>>,
        at |-> 1, attempt |-> 0, repairing |-> FALSE, heard |-> <<>>,
        verdict |-> "none", said |-> <<>>, tasks |-> <<>>]
  /\ usage' = NoUsage /\ answered' = 0

----------------------------------------------------------------------------
(* What is made of the answers.                                             *)

(* dedupeAnalysis: of two tasks alike the surer is kept, in the place of    *)
(* the first.  It takes over the date and the owner of the other; the other *)
(* way round only the date is taken over.                                   *)
MergeAlike(kept, item) ==
  IF item.confidence > kept.confidence
  THEN [item EXCEPT !.dated = @ \/ kept.dated, !.owned = @ \/ kept.owned]
  ELSE [kept EXCEPT !.dated = @ \/ item.dated]

Dedupe(items) ==
  LET Add(kept, item) ==
        LET alike == {i \in DOMAIN kept : kept[i].topic = item.topic} IN
        IF alike = {} THEN Append(kept, item)
        ELSE [i \in DOMAIN kept |-> IF i \in alike THEN MergeAlike(kept[i], item) ELSE kept[i]]
  IN FoldLeft(Add, <<>>, items)

(* The judge chooses among the candidates it was shown; an id of its own is *)
(* discarded and a person decides.                                          *)
VerdictOf(matched) == IF matched = "foreign" THEN "human" ELSE matched

Awaiting == consulting.step = "asking"
IsLast == consulting.at = Len(consulting.prompts)
Current == consulting.prompts[consulting.at]

Counted(tokens, calls) ==
  usage' = [tokens |-> usage.tokens + tokens, calls |-> usage.calls + calls]

Failed == [consulting EXCEPT !.step = "failed"]

(* An answer that fits the schema.                                          *)
AnswerFits(matched, items) ==
  /\ Awaiting
  /\ Counted(1, 1) /\ answered' = answered + 1
  /\ LET next == [consulting EXCEPT !.heard = Append(@, Current), !.attempt = 0,
                                    !.repairing = FALSE] IN
     consulting' =
       IF ~IsLast THEN [next EXCEPT !.at = @ + 1]
       ELSE [next EXCEPT !.step = "returned", !.verdict = VerdictOf(matched),
               !.said = items, !.tasks = IF Current.about = "consolidate" THEN Dedupe(items) ELSE items]

(* One that does not: the model is asked to repair it, once.                *)
AnswerMisfits ==
  /\ Awaiting
  /\ Counted(1, 1) /\ answered' = answered + 1
  /\ consulting' = IF consulting.repairing THEN Failed
                   ELSE [consulting EXCEPT !.repairing = TRUE, !.attempt = 0]

(* None: the prompt was blocked, or the text is empty.  The call is counted *)
(* twice, when it is answered and when that is found to be an error.        *)
AnswerEmpty ==
  /\ Awaiting
  /\ Counted(1, 2) /\ answered' = answered + 1
  /\ consulting' = Failed

(* Over quota, unavailable or out of time.                                  *)
Unanswered ==
  /\ Awaiting
  /\ Counted(0, 1) /\ UNCHANGED answered
  /\ consulting' = IF consulting.attempt < MaxRetries
                   THEN [consulting EXCEPT !.attempt = @ + 1] ELSE Failed

(* Refused: credentials, or a request the provider does not understand.     *)
Denied ==
  /\ Awaiting
  /\ Counted(0, 1) /\ UNCHANGED answered
  /\ consulting' = Failed

GeminiNext ==
  \/ \E kind \in {"analyze", "reconcile", "digest"}, t \in Transcripts : BeginConsulting(kind, t)
  \/ \E matched \in {"none", "shown", "foreign"}, items \in Consolidated : AnswerFits(matched, items)
  \/ AnswerMisfits \/ AnswerEmpty \/ Unanswered \/ Denied

GeminiSpec == GeminiInit /\ [][GeminiNext]_geminiVars

----------------------------------------------------------------------------
(* What an analysis that returns has done, after whatever retries and       *)
(* repairs: every segment of the meeting was heard once, in order, in       *)
(* blocks of the size allowed, and the notes once; the tasks of several     *)
(* blocks are one for each topic, with a date if any had one; and the usage *)
(* it reports is that of every answer of the way.  The usage of one that    *)
(* fails is lost.                                                           *)
HeardWhole ==
  consulting.step = "returned" /\ consulting.kind = "analyze" =>
    LET several == Len(consulting.heard) > 1
        blocks == IF several THEN Front(consulting.heard) ELSE consulting.heard
        TopicsOf(items) == {item.topic : item \in ToSet(items)} IN
    /\ \A i \in DOMAIN blocks : blocks[i].about = "transcript"
    /\ FlattenSeq([i \in DOMAIN blocks |-> blocks[i].segments]) = consulting.transcript
    /\ {i \in DOMAIN blocks : blocks[i].notes} = {1}
    /\ several => \A i \in DOMAIN blocks :
         Len(blocks[i].segments) > 1 =>
           FoldLeft(LAMBDA n, s : n + SizeOf(s), 0, blocks[i].segments) <= BlockSize
    /\ several =>
         /\ TopicsOf(consulting.tasks) = TopicsOf(consulting.said)
         /\ Len(consulting.tasks) = Cardinality(TopicsOf(consulting.said))
         /\ \A item \in ToSet(consulting.said) : item.dated =>
              \E kept \in ToSet(consulting.tasks) : kept.topic = item.topic /\ kept.dated
    /\ usage.tokens = answered
=============================================================================
