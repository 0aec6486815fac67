------------------------------- MODULE TficfJobs -------------------------------
(***************************************************************************)
(* TF-ICF on Hadoop, hw4/p1/TFICF/TFICF.java: three MapReduce jobs, each on *)
(* the files that the one before has left.  Pairs are records: the strings *)
(* word@document and count/size, which the next mapper takes apart, are    *)
(* their fields.                                                           *)
(*                                                                         *)
(* Hadoop may apply a combiner to some of the pairs of a key, any number   *)
(* of times.  A job that fails leaves its output directory empty.          *)
(***************************************************************************)
EXTENDS TficfTables, Bags, FiniteSetsExt

CONSTANTS
    Clean,   \* what WCMapper makes of a token: a word, or Dropped
    Dropped

VARIABLES
    input,   \* the files of the input directory
    job,     \* the job that runs, "ended" after the last
    mapped,  \* the mappers of the job are done
    pairs,   \* what they have written: a bag
    files,   \* what the last job has written
    failed,  \* ghost: a job has failed
    ret      \* what run() returns

vars == <<input, job, mapped, pairs, files, failed, ret>>

numDocs == Len(input)
WordDoc(p) == <<p.word, p.document>>

\* The words of a file: punctuation and tokens that do not begin with a letter are dropped.
Words(text) ==
    LET Token(words, token) ==
            IF Clean[token] = Dropped THEN words ELSE Append(words, Clean[token])
    IN  FoldLeft(Token, << >>, text)

\* One pair for each word of each file.
WCMapper ==
    LET words(d) == Words(input[d])
        all == UNION {{[word |-> w, document |-> d, wordCount |-> 1] : w \in ToSet(words(d))} :
                        d \in DOMAIN input}
    IN  [p \in all |-> Cardinality({k \in DOMAIN words(p.document) :
                                        words(p.document)[k] = p.word})]

\* DSMapper and TFICFMapper only change what the key is.
Map ==
    /\ job # "ended" /\ ~mapped
    /\ pairs' = IF job = "wc" THEN WCMapper ELSE SetToBag(files)
    /\ mapped' = TRUE
    /\ UNCHANGED <<input, job, files, failed, ret>>

\* The sum of the values of a bag of pairs with one key.
Total(bag) == MapThenSumSet(LAMBDA p : bag[p] * p.wordCount, BagToSet(bag))

\* How many values it has.
Values(bag) == MapThenSumSet(LAMBDA p : bag[p], BagToSet(bag))

\* mutant: the values are counted, not added up
WCReducer_count(bag) == [(CHOOSE p \in BagToSet(bag) : TRUE) EXCEPT !.wordCount = Values(bag)]
WCReducer(bag) == [(CHOOSE p \in BagToSet(bag) : TRUE) EXCEPT !.wordCount = Total(bag)]

\* WCReducer is the combiner of the first job.
Combine ==
    /\ job = "wc" /\ mapped
    /\ \E p \in BagToSet(pairs), q \in BagToSet(pairs) :
         LET two == SetToBag({p}) (+) SetToBag({q})
         IN  /\ WordDoc(p) = WordDoc(q) /\ two \sqsubseteq pairs
             /\ pairs' = (pairs (-) two) (+) SetToBag({WCReducer(two)})
    /\ UNCHANGED <<input, job, mapped, files, failed, ret>>

\* The key a mapper gives its pair: word@document, the document or the word.
Key(q) == CASE job = "wc" -> WordDoc(q) [] job = "ds" -> q.document [] job = "tficf" -> q.word

\* The pairs whose key is that of p, as a bag.
SameKey(p) == [q \in {q \in BagToSet(pairs) : Key(q) = Key(p)} |-> pairs[q]]

\* word@document: its count and the size of the document.
DSReducer(p) ==
    [word |-> p.word, document |-> p.document, wordCount |-> p.wordCount,
     docSize |-> Total(SameKey(p))]

\* document@word: the numbers its value is computed from.
TFICFReducer(p) ==
    [word |-> p.word, document |-> p.document, wordCount |-> p.wordCount, docSize |-> p.docSize,
     numDocs |-> numDocs, numDocsWithWord |-> Values(SameKey(p))]

Reduced ==
    CASE job = "wc"    -> {WCReducer(SameKey(p)) : p \in BagToSet(pairs)}
      [] job = "ds"    -> {DSReducer(p) : p \in BagToSet(pairs)}
      [] job = "tficf" -> {TFICFReducer(p) : p \in BagToSet(pairs)}

\* run() looks at the result of the last job only.
Finish(ok) ==
    /\ job' = CASE job = "wc" -> "ds" [] job = "ds" -> "tficf" [] job = "tficf" -> "ended"
    /\ ret' = IF job = "tficf" THEN (IF ok THEN 0 ELSE 1) ELSE ret
    /\ mapped' = FALSE /\ pairs' = EmptyBag

Reduce ==
    /\ job # "ended" /\ mapped
    /\ files' = Reduced
    /\ Finish(TRUE)
    /\ UNCHANGED <<input, failed>>

Fail ==
    /\ job # "ended"
    /\ files' = {}
    /\ failed' = TRUE
    /\ Finish(FALSE)
    /\ UNCHANGED input

Start(corpus) ==
    /\ input = corpus /\ job = "wc"
    /\ mapped = FALSE /\ pairs = EmptyBag
    /\ files = {} /\ failed = FALSE /\ ret = NotSet

Step == Map \/ Combine \/ Reduce
Next == Step \/ Fail
============================================================================
