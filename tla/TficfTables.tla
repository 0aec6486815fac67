---------------------------- MODULE TficfTables ----------------------------
(***************************************************************************)
(* The tables of the TF-ICF programs and the sequential program            *)
(* hw6/p1/TFICF/TFICF_serial.c.  A document is the sequence of its words.  *)
(* A line of the output is the numbers its TF-ICF value is computed from.  *)
(***************************************************************************)
EXTENDS Integers, FiniteSets, SequencesExt

CONSTANTS
    Absent,   \* an entry of the input directory that has not the name doc<i>
    MaxWords  \* MAX_WORDS_IN_CORPUS: the entries of each of the arrays

NotSet == -1  \* numDocsWithWord before it is filled in

\* The array has the entries of the table.  Nothing in the programs looks at this before
\* an entry is written.
Fits(table) == Len(table) <= MaxWords

\* The pairs of a document and a word in it.
WordPairs(corpus) ==
    UNION {{<<w, d>> : w \in ToSet(corpus[d])} : d \in {e \in DOMAIN corpus : corpus[e] # Absent}}

\* mutant: each occurrence of a word gets an entry
AddEntry_always(TFICF, doc, size, numDocs, word) ==
    Append(TFICF, [word |-> word, document |-> doc, wordCount |-> 1, docSize |-> size,
                   numDocs |-> numDocs, numDocsWithWord |-> NotSet])

\* One more occurrence of word in doc: its entry of the table, or a new one.
AddEntry(TFICF, doc, size, numDocs, word) ==
    LET j == SelectInSeq(TFICF, LAMBDA e : e.word = word /\ e.document = doc)
    IN  IF j # 0 THEN [TFICF EXCEPT ![j].wordCount = @ + 1]
        ELSE Append(TFICF, [word |-> word, document |-> doc, wordCount |-> 1,
                            docSize |-> size, numDocs |-> numDocs,
                            numDocsWithWord |-> NotSet])

AddUnique(unique_words, doc, word) ==
    LET j == SelectInSeq(unique_words, LAMBDA u : u.word = word)
    IN  CASE j = 0 ->
               Append(unique_words, [word |-> word, numDocsWithWord |-> 1, currDoc |-> doc])
          [] j # 0 /\ unique_words[j].currDoc # doc ->
               [unique_words EXCEPT ![j].numDocsWithWord = @ + 1, ![j].currDoc = doc]
          [] OTHER -> unique_words

NoTables == [TFICF |-> << >>, unique |-> << >>]

\* The tables after document number doc, whose words are text.
ReadDocument(tables, doc, text, numDocs) ==
    LET Word(tab, word) ==
            [TFICF  |-> AddEntry(tab.TFICF, doc, Len(text), numDocs, word),
             unique |-> AddUnique(tab.unique, doc, word)]
    IN  FoldLeft(Word, tables, text)

\* Every entry gets the number of documents that have its word.
Populate(TFICF, unique_words) ==
    [k \in DOMAIN TFICF |->
        LET j == SelectInSeq(unique_words, LAMBDA u : u.word = TFICF[k].word)
        IN  IF j = 0 THEN TFICF[k]
            ELSE [TFICF[k] EXCEPT !.numDocsWithWord = unique_words[j].numDocsWithWord]]

\* The file after qsort: how often each line is in it.
SortedFile(strings) ==
    [line \in ToSet(strings) |-> Cardinality({k \in DOMAIN strings : strings[k] = line})]

\* The sequential program, when all documents are there.
SerialTables(corpus) ==
    FoldLeft(LAMBDA tab, doc : ReadDocument(tab, doc, corpus[doc], Len(corpus)),
             NoTables, [k \in 1 .. Len(corpus) |-> k])

SerialFile(corpus) ==
    LET tab == SerialTables(corpus)
    IN  SortedFile(Populate(tab.TFICF, tab.unique))

\* What TF-ICF is defined from: the occurrences of a word in a document, the words of
\* the document, the documents, and the documents with the word.
Definition(corpus) ==
    LET docs    == DOMAIN corpus
        words   == UNION {ToSet(corpus[d]) : d \in docs}
        Count(w, d) == Cardinality({k \in DOMAIN corpus[d] : corpus[d][k] = w})
        Line(w, d)  == [word |-> w, document |-> d, wordCount |-> Count(w, d),
                        docSize |-> Len(corpus[d]), numDocs |-> Cardinality(docs),
                        numDocsWithWord |-> Cardinality({e \in docs : Count(w, e) > 0})]
        lines   == {Line(p[1], p[2]) : p \in {q \in words \X docs : Count(q[1], q[2]) > 0}}
    IN  [line \in lines |-> 1]
============================================================================
