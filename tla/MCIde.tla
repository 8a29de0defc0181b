------------------------------- MODULE MCIde -------------------------------
(* A channel with a disk, or one with a CD-ROM as the second drive.         *)
EXTENDS Ide

Equipment == {<<"hd", "none">>, <<"none", "cd">>}
MCChannels == {[i \in 0 .. 1 |-> e[i + 1]] : e \in Equipment}

File(lba, h, hc, lc, s, n) ==
  [lba_mode |-> lba, head |-> h, hcyl |-> hc, lcyl |-> lc, sector |-> s, nsector |-> n]

(* Three sectors from sector 25 in LBA mode and four from sector 5 otherwise: *)
(* a carry runs through all registers.                                      *)
MCTaskFiles == {File(TRUE, 0, 2, 2, 1, 3), File(FALSE, 1, 0, 2, 1, 0)}
MCControls == {{}, {"reset"}, {"disable_irq"}}
=============================================================================
