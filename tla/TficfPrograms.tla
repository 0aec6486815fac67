---------------------------- MODULE TficfPrograms ----------------------------
(***************************************************************************)
(* The three TF-ICF programs of the homeworks, on the same documents: over *)
(* MPI (Tficf), on Hadoop (TficfJobs) and on Spark (TficfRdds).  One of    *)
(* them is run.  Documents are sequences of tokens; the MPI program takes  *)
(* a token for a word, the Hadoop program cleans it.                       *)
(***************************************************************************)
EXTENDS Tficf

CONSTANTS Clean, Dropped, Blank

VARIABLES
    program,                                      \* "mpi", "hadoop" or "spark"
    input, job, mapped, jobPairs, jobFiles, failed, ret,  \* of the Hadoop program
    filesRDD, stage, rddPairs, tfRDD, lines               \* of the Spark program

hadoopVars == <<input, job, mapped, jobPairs, jobFiles, failed, ret>>
sparkVars  == <<filesRDD, stage, rddPairs, tfRDD, lines>>
allVars    == <<program, vars, hadoopVars, sparkVars>>

Hadoop == INSTANCE TficfJobs WITH pairs <- jobPairs, files <- jobFiles
Spark  == INSTANCE TficfRdds WITH files <- filesRDD, pairs <- rddPairs

ProgramsInit ==
    /\ Init
    /\ program \in IF AllThere THEN {"mpi", "hadoop", "spark"} ELSE {"mpi"}
    /\ Hadoop!Start(IF program = "hadoop" THEN corpus ELSE << >>)
    /\ Spark!Start(IF program = "spark" THEN corpus ELSE << >>)

Mpi       == program = "mpi" /\ Next /\ UNCHANGED <<program, hadoopVars, sparkVars>>
OnHadoop  == program = "hadoop" /\ Hadoop!Step /\ UNCHANGED <<program, vars, sparkVars>>
JobFails  == program = "hadoop" /\ Hadoop!Fail /\ UNCHANGED <<program, vars, sparkVars>>
OnSpark   == program = "spark" /\ Spark!Step /\ UNCHANGED <<program, vars, hadoopVars>>

ProgramsNext == Mpi \/ OnHadoop \/ JobFails \/ OnSpark

\* Every rank of the MPI program runs, and the jobs of the others do.
ProgramsSpec ==
    /\ ProgramsInit /\ [][ProgramsNext]_allVars
    /\ WF_allVars(RootStep /\ Mpi)
    /\ \A r \in Worker : WF_allVars(WorkerStep(r) /\ Mpi)
    /\ WF_allVars(OnHadoop) /\ WF_allVars(OnSpark)

----------------------------------------------------------------------------
(* Properties *)

\* The table TF-ICF is defined from, when the words of a document are Read(text).
TableOf(Read(_)) == DOMAIN Definition([d \in DOMAIN corpus |-> Read(corpus[d])])

\* However often Hadoop combines the counts of a map task, the three jobs of
\* hw4/p1/TFICF/TFICF.java give the table of the cleaned words, if none of them fails.
HadoopTable ==
    job = "ended" /\ ~failed => ret = 0 /\ jobFiles = TableOf(Hadoop!Words)

\* In whichever order Spark reduces the values of a key, hw5/p1/TFICF/TFICF.java prints
\* the table of the words it splits a document into, every line from one TF and one ICF.
SparkTable ==
    lines # Spark!NoLines => lines[1] = TableOf(Spark!Words)

\* The program that is run ends; over MPI, if the corpus is small enough and no worker exits.
ProgramsEnd ==
    <>CASE program = "mpi"    -> Ended
        [] program = "hadoop" -> job = "ended"
        [] program = "spark"  -> stage = "ended"
============================================================================
