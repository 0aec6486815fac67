------------------------------- MODULE TficfRdds -------------------------------
(***************************************************************************)
(* TF-ICF on Spark, hw5/p1/TFICF/TFICF.java: pairs that are reduced by key *)
(* three times.  reduceByKey takes any two values of a key at a time, in   *)
(* any order, until every key has one.  Pairs are records: the strings     *)
(* word@document, count/size and count/document1,document2.. are fields.   *)
(***************************************************************************)
EXTENDS TficfTables, Bags

CONSTANT Blank   \* the empty string

VARIABLES
    files,   \* filesRDD
    stage,   \* the reduceByKey that runs: "tf", "icf" or "tficf"; "ended"
    pairs,   \* its pairs: a bag of [key, value]
    tfRDD,   \* the result of the first one
    lines    \* what is printed

vars == <<files, stage, pairs, tfRDD, lines>>

NoLines == <<>>
numDocs == Len(files)

BagOf(S, n(_)) == [p \in S |-> n(p)]

\* split("\\s+"): a file without words is one empty word.
Words(text) == IF text = << >> THEN <<Blank>> ELSE text

\* wordsRDD and its mapValues: (word@document, 1/docSize), for each word.
Ones(corpus) ==
    LET pair(d, w) == [key |-> <<w, d>>, value |-> [count |-> 1, docSize |-> Len(Words(corpus[d]))]]
    IN  BagOf(UNION {{pair(d, w) : w \in ToSet(Words(corpus[d]))} : d \in DOMAIN corpus},
              LAMBDA p : Cardinality({k \in DOMAIN Words(corpus[p.key[2]]) :
                                         Words(corpus[p.key[2]])[k] = p.key[1]}))

\* mutant: the list of the second value is lost
Both_first(v1, v2) == [v1 EXCEPT !.count = @ + v2.count]
\* (count/docs), (count/docs): the sum of the counts, both lists.
Both(v1, v2) == [count |-> v1.count + v2.count, docs |-> v1.docs \o v2.docs]

\* The functions given to reduceByKey.
Reduced(v1, v2) ==
    CASE stage = "tf"    -> [v1 EXCEPT !.count = @ + v2.count]
      [] stage = "icf"   -> Both(v1, v2)
      [] stage = "tficf" -> v1 (+) v2   \* v1*v2: the bag of the factors

ReduceByKey ==
    /\ stage # "ended"
    /\ \E p \in BagToSet(pairs), q \in BagToSet(pairs) :
         LET two == SetToBag({p}) (+) SetToBag({q})
         IN  /\ p.key = q.key /\ two \sqsubseteq pairs
             /\ pairs' = (pairs (-) two)
                         (+) SetToBag({[key |-> p.key, value |-> Reduced(p.value, q.value)]})
    /\ UNCHANGED <<files, stage, tfRDD, lines>>

\* Every key has one value.
AllReduced(s) ==
    /\ stage = s
    /\ \A p, q \in BagToSet(pairs) : p.key = q.key => p = q /\ pairs[p] = 1

\* mapToPair: (word, 1/document).
MapIcf ==
    /\ AllReduced("tf") /\ stage' = "icf"
    /\ tfRDD' = BagToSet(pairs)
    /\ pairs' = SetToBag({[key |-> p.key[1], value |-> [count |-> 1, docs |-> <<p.key[2]>>]] :
                            p \in BagToSet(pairs)})
    /\ UNCHANGED <<files, lines>>

TF(v)  == SetToBag({[wordCount |-> v.count, docSize |-> v.docSize]})
ICF(v) == SetToBag({[numDocs |-> numDocs, numDocsWithWord |-> v.count]})

\* flatMapToPair: (word@document, numDocs/numDocsWithWord); tfFinalRDD union icfFinalRDD.
Union ==
    /\ AllReduced("icf") /\ stage' = "tficf"
    /\ LET tf  == SetToBag({[key |-> p.key, value |-> TF(p.value)] : p \in tfRDD})
           icf == UNION {{[key |-> <<p.key, d>>, value |-> ICF(p.value)] : d \in ToSet(p.value.docs)} :
                           p \in BagToSet(pairs)}
       IN  pairs' = tf (+) SetToBag(icf)
    /\ UNCHANGED <<files, tfRDD, lines>>

\* The line of a key whose value is one TF and one ICF.
Line(p) ==
    LET tfs  == {f \in BagToSet(p.value) : "wordCount" \in DOMAIN f}
        icfs == {f \in BagToSet(p.value) : "numDocs" \in DOMAIN f}
        tf   == CHOOSE f \in tfs : TRUE
        icf  == CHOOSE f \in icfs : TRUE
    IN IF tfs # {} /\ icfs # {} /\ p.value = SetToBag({tf, icf})
       THEN [word |-> p.key[1], document |-> p.key[2], wordCount |-> tf.wordCount,
             docSize |-> tf.docSize, numDocs |-> icf.numDocs, numDocsWithWord |-> icf.numDocsWithWord]
       ELSE p

Collect ==
    /\ AllReduced("tficf") /\ stage' = "ended"
    /\ lines' = <<{Line(p) : p \in BagToSet(pairs)}>>
    /\ UNCHANGED <<files, pairs, tfRDD>>

Start(corpus) ==
    /\ files = corpus
    /\ stage = "tf" /\ pairs = Ones(corpus) /\ tfRDD = {} /\ lines = NoLines

Step == ReduceByKey \/ MapIcf \/ Union \/ Collect
============================================================================
