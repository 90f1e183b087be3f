---------------------------- MODULE MC_PlotQueue ----------------------------
(* Three (or two) plot ids; requests of the GUI for each plotter.         *)
EXTENDS PlotQueue

CONSTANTS P1, P2, P3, D1, D2, D3, F1

MCIdOrder == <<P1, P2, P3>>

\* two ids: a request of two items, or two requests of one
MCIdOrder2 == <<P1, P2>>

MCDirs == {D1, D2, D3}
MCKeys == {F1}

\* madmax, two serial plots with tmptoggle over two temporary directories
MadmaxToggle ==
  Request([plotter |-> "madmax", n |-> 2, d |-> D3, r |-> 4, k |-> 32,
           t |-> D1, t2 |-> D2, u |-> 256, v |-> 256, G |-> TRUE])

\* chiapos, one parallel plot with tmp2, a farmer key and no bitfield
ChiaposOne ==
  Request([plotter |-> "chiapos", n |-> 1, parallel |-> TRUE, d |-> D3, r |-> 2,
           f |-> F1, k |-> 32, t |-> D1, t2 |-> D2, b |-> 3389, u |-> 128,
           e |-> TRUE, x |-> FALSE, overrideK |-> FALSE])

\* bladebit ramplot, one serial plot, warm start and compression level 1
RamOne ==
  Request([plotter |-> "bladebit", plot_type |-> "ramplot", n |-> 1, d |-> D3,
           r |-> 0, w |-> TRUE, compress |-> 1])

\* bladebit diskplot, two parallel plots with every disk switch set
DiskTwo ==
  Request([plotter |-> "bladebit", plot_type |-> "diskplot", n |-> 2,
           parallel |-> TRUE, d |-> D3, r |-> 8, t |-> D1, t2 |-> D2,
           f1_threads |-> 16, alternate |-> TRUE, no_t1_direct |-> TRUE,
           no_t2_direct |-> TRUE])

\* bladebit cudaplot, two serial plots with tmp and tmp2
CudaTwo ==
  Request([plotter |-> "bladebit", plot_type |-> "cudaplot", n |-> 2, d |-> D3,
           r |-> 0, t |-> D1, t2 |-> D2, device |-> 0])

MCRequests == {MadmaxToggle, ChiaposOne, RamOne, DiskTwo}
MCSerialRequests == {RamOne, MadmaxToggle}
MCCudaRequests == {CudaTwo}
=============================================================================
