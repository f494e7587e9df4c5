-------------------------------- MODULE Dataset --------------------------------
(***************************************************************************)
(* How CPUMiner::getRandomYDataset divides the items of the dataset among  *)
(* the threads that initialise it: equal parts, and the remainder to the   *)
(* last.  `startItem' is the sum of the counts before.                     *)
(***************************************************************************)
EXTENDS Integers

perThread(items, threads) == items \div threads
remainder(items, threads) == items % threads

startItem(i, items, threads) == i * perThread(items, threads)

count(i, items, threads) ==
    perThread(items, threads) + (IF i = threads - 1 THEN remainder(items, threads) ELSE 0)

Part(i, items, threads) ==
    {x \in Nat : /\ startItem(i, items, threads) <= x
                 /\ x < startItem(i, items, threads) + count(i, items, threads)}

================================================================================
