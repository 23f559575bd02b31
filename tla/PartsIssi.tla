----------------------------- MODULE PartsIssi ------------------------------
(***************************************************************************)
(* The chips of ISSI and PMC that the SPI-NOR driver knows, in the order   *)
(* of the vendors' tables: the first entry that matches an id is the one   *)
(* taken.                                                                  *)
(***************************************************************************)
EXTENDS SpiNorPart

\* Opcodes of their own.
is25cd512_010_erase_opcodes == {Sector(4, \h20), Sector(32, \hd8)}
pm25lv_erase_opcodes == {Sector(4, \hd7), Sector(32, \hd8)}
pm25lv020_erase_opcodes == {Sector(4, \hd7), Sector(64, \hd8)}

issi_parts_1 == <<
  MetaSfdp("IS25L*025", <<\h9d, \h40, \h09>>, 32, 104, [fix |-> "is25lx025"]),
  Sfdp("IS25LQ025B", <<\h9d, \h40, \h09>>, 32, 104, [wp |-> "wpr_3bp_tb"]),
  Sfdp("IS25LP025EJ", <<\h9d, \h40, \h09>>, 32, 104, [wp |-> "is25xp010ec_wpr_3bp_tb"]),
  Sfdp("IS25LP025EB", <<\h9d, \h40, \h09>>, 32, 104, [wp |-> "wpr_3bp_tb"]),
  MetaSfdp("IS25WP025E", <<\h9d, \h70, \h09>>, 32, 104, Plain),
  Sfdp("IS25WP025EJ", <<\h9d, \h70, \h09>>, 32, 104, [wp |-> "is25xp010ec_wpr_3bp_tb"]),
  Sfdp("IS25WP025EB", <<\h9d, \h70, \h09>>, 32, 104, [wp |-> "wpr_3bp_tb"]),
  MetaSfdp("IS25L*512", <<\h9d, \h40, \h10>>, 64, 104, [fix |-> "is25lx512"]),
  Sfdp("IS25LQ512B", <<\h9d, \h40, \h10>>, 64, 104, [wp |-> "wpr_3bp_tb"]),
  Sfdp("IS25LP512EJ", <<\h9d, \h40, \h10>>, 64, 104, [wp |-> "wpr_3bp_tb"]),
  Sfdp("IS25LP512EB", <<\h9d, \h40, \h10>>, 64, 104, [wp |-> "wpr_3bp_tb"]),
  MetaSfdp("IS25WP512E", <<\h9d, \h70, \h10>>, 64, 104, Plain),
  Sfdp("IS25WP512EJ", <<\h9d, \h70, \h10>>, 64, 104, [wp |-> "wpr_3bp_tb"]),
  Sfdp("IS25WP512EB", <<\h9d, \h70, \h10>>, 64, 104, [wp |-> "wpr_3bp_tb"]),
  NoSfdp("IS25CD512", <<\h7f, \h9d, \h20>>, 64, {}, NV, 50, [alias |-> {"IS25LD512A"},
      erase3 |-> is25cd512_010_erase_opcodes, r |-> {"1_1_2"}, wp |-> "is25cd512_wpr_2bp", fix |-> "is25cd512"]),
  MetaSfdp("IS25L*010", <<\h9d, \h40, \h11>>, 128, 104, [fix |-> "is25lx010"]),
  Sfdp("IS25LQ010B", <<\h9d, \h40, \h11>>, 128, 104, [wp |-> "wpr_3bp_tb"]) >>

issi_parts_2 == <<
  Sfdp("IS25LP010EJ", <<\h9d, \h40, \h11>>, 128, 104, [wp |-> "wpr_3bp_tb"]),
  Sfdp("IS25LP010EC", <<\h9d, \h40, \h11>>, 128, 104, [wp |-> "is25xp010ec_wpr_3bp_tb"]),
  Sfdp("IS25LP010EB", <<\h9d, \h40, \h11>>, 128, 104, [wp |-> "wpr_3bp_tb"]),
  MetaSfdp("IS25WP010E", <<\h9d, \h70, \h11>>, 128, 104, Plain),
  Sfdp("IS25WP010EJ", <<\h9d, \h70, \h11>>, 128, 104, [wp |-> "wpr_3bp_tb"]),
  Sfdp("IS25WP010EC", <<\h9d, \h70, \h11>>, 128, 104, [wp |-> "is25xp010ec_wpr_3bp_tb"]),
  Sfdp("IS25WP010EB", <<\h9d, \h70, \h11>>, 128, 104, [wp |-> "wpr_3bp_tb"]),
  NoSfdp("IS25CD010", <<\h7f, \h9d, \h21>>, 128, {}, NV, 50, [alias |-> {"IS25LD010A"},
      erase3 |-> is25cd512_010_erase_opcodes, r |-> {"1_1_2"}, wp |-> "wpr_2bp_up_ratio", fix |-> "is25cd010"]),
  MetaSfdp("IS25L*020", <<\h9d, \h40, \h12>>, 256, 104, [fix |-> "is25lx020"]),
  Sfdp("IS25LQ020B", <<\h9d, \h40, \h12>>, 256, 104, [wp |-> "wpr_3bp_tb"]),
  Sfdp("IS25LP020EJ", <<\h9d, \h40, \h12>>, 256, 104, [wp |-> "is25xp020ej_wpr_3bp_tb"]),
  Sfdp("IS25LP020EB", <<\h9d, \h40, \h12>>, 256, 104, [wp |-> "wpr_3bp_tb"]),
  Meta("PM/IS25LQ020", <<\h9d, \h11, \h42>>, 256, S4_64, NV, 104, [qe |-> "SR1_BIT6", r |-> X2 \cup X4,
      p |-> {"1_1_4"}, wp |-> "wpr_3bp_tb"]),
  NoSfdp("IS25LQ020C", <<\h9d, \h11, \h42>>, 256, S4_32_64, NV, 104, [qe |-> "SR1_BIT6", r |-> X2 \cup X4,
      p |-> {"1_1_4"}, wp |-> "wpr_3bp_tb"]),
  MetaSfdp("IS25WP020*", <<\h9d, \h70, \h12>>, 256, 104, Plain),
  Sfdp("IS25WP020", <<\h9d, \h70, \h12>>, 256, 133, [wp |-> "wpr_3bp_tb", dc |-> "is25wp020",
      dcacc |-> "issi_rr_dc6_3"]),
  Sfdp("IS25WP020D", <<\h9d, \h70, \h12>>, 256, 133, [wp |-> "wpr_3bp_tb", dc |-> "is25wp020d",
      dcacc |-> "issi_rr_dc6_3"]) >>

issi_parts_3 == <<
  Sfdp("IS25WP020EJ", <<\h9d, \h70, \h12>>, 256, 104, [wp |-> "is25xp020ej_wpr_3bp_tb"]),
  Sfdp("IS25WP020EB", <<\h9d, \h70, \h12>>, 256, 104, [wp |-> "wpr_3bp_tb"]),
  NoSfdp("IS25WQ020", <<\h9d, \h11, \h52>>, 256, S4_32_64, NV, 104, [qe |-> "SR1_BIT6", r |-> X2 \cup X4,
      p |-> {"1_1_4"}, wp |-> "wpr_3bp_tb"]),
  NoSfdp("IS25LD020", <<\h7f, \h9d, \h22>>, 256, S4_64, NV, 50, [r |-> {"1_1_2"}, wp |-> "wpr_2bp_up_ratio"]),
  MetaSfdp("IS25L*040", <<\h9d, \h40, \h13>>, 512, 104, Plain),
  Sfdp("IS25LQ040B", <<\h9d, \h40, \h13>>, 512, 104, [wp |-> "wpr_3bp_tb"]),
  Sfdp("IS25LP040EJ", <<\h9d, \h40, \h13>>, 512, 104, [wp |-> "is25xp040ej_wpr_3bp_tb"]),
  Sfdp("IS25LP040EB", <<\h9d, \h40, \h13>>, 512, 104, [wp |-> "wpr_3bp_tb"]),
  NoSfdp("IS25LQ040C", <<\h9d, \h12, \h43>>, 512, S4_32_64, NV, 104, [qe |-> "SR1_BIT6", r |-> X2 \cup X4,
      p |-> {"1_1_4"}, wp |-> "wpr_3bp_tb"]),
  MetaSfdp("IS25WP040*", <<\h9d, \h70, \h13>>, 512, 104, Plain),
  Sfdp("IS25WP040", <<\h9d, \h70, \h13>>, 512, 133, [wp |-> "wpr_3bp_tb", dc |-> "is25wp020",
      dcacc |-> "issi_rr_dc6_3"]),
  Sfdp("IS25WP040D", <<\h9d, \h70, \h13>>, 512, 133, [wp |-> "wpr_3bp_tb", dc |-> "is25wp020d",
      dcacc |-> "issi_rr_dc6_3"]),
  MetaSfdp("IS25WP040E", <<\h9d, \h70, \h13>>, 512, 104, Plain),
  Sfdp("IS25WP040EJ", <<\h9d, \h70, \h13>>, 512, 104, [wp |-> "is25xp040ej_wpr_3bp_tb"]),
  Sfdp("IS25WP040EB", <<\h9d, \h70, \h13>>, 512, 104, [wp |-> "wpr_3bp_tb"]),
  NoSfdp("IS25WQ040", <<\h9d, \h12, \h53>>, 512, S4_32_64, NV, 104, [qe |-> "SR1_BIT6", r |-> X2 \cup X4,
      p |-> {"1_1_4"}, wp |-> "wpr_3bp_tb"]) >>

issi_parts_4 == <<
  Meta("PM/IS25L*040", <<\h7f, \h9d, \h7e>>, 256, S64, NV, 33, [wp |-> "wpr_3bp_up", fix |-> "is25lx040"]),
  NoSfdp("IS25LD040", <<\h7f, \h9d, \h7e>>, 256, S4_64, NV, 100, [r |-> {"1_1_2"}, wp |-> "wpr_3bp_up"]),
  Sfdp("IS25LQ080B", <<\h9d, \h40, \h14>>, 1024, 104, [wp |-> "wpr_3bp_tb"]),
  Sfdp("IS25LP080D", <<\h9d, \h60, \h14>>, 1024, 133, [wp |-> "wpr_3bp_tb", dc |-> "is25wp020d",
      dcacc |-> "issi_rr_dc6_3"]),
  MetaSfdp("IS25WP080*", <<\h9d, \h70, \h14>>, 1024, 133, [wp |-> "wpr_3bp_tb", fix |-> "is25wp080x",
      dc |-> "is25wp020", dcacc |-> "issi_rr_dc6_3"]),
  Sfdp("IS25WP080", <<\h9d, \h70, \h14>>, 1024, 133, [wp |-> "wpr_3bp_tb", dc |-> "is25wp020",
      dcacc |-> "issi_rr_dc6_3"]),
  Sfdp("IS25WP080D", <<\h9d, \h70, \h14>>, 1024, 133, [wp |-> "wpr_3bp_tb", dc |-> "is25wp020d",
      dcacc |-> "issi_rr_dc6_3"]),
  NoSfdp("IS25WQ080", <<\h7f, \h9d, \h54>>, 1024, S4_32_64, NV, 104, [qe |-> "SR1_BIT6", r |-> X2 \cup X4,
      p |-> {"1_1_4"}, wp |-> "wpr_3bp_tb"]),
  NoSfdp("IS25LQ080C", <<\h7f, \h9d, \h44>>, 1024, S4_32_64, NV, 104, [qe |-> "SR1_BIT6", r |-> X2 \cup X4,
      p |-> {"1_1_4"}, wp |-> "wpr_3bp_tb"]),
  Sfdp("IS25LQ016B", <<\h9d, \h40, \h15>>, 2048, 104, [wp |-> "wpr_3bp_tb"]),
  Sfdp("IS25LP016D", <<\h9d, \h60, \h15>>, 2048, 133, [wp |-> "wpr_3bp_tb", dc |-> "is25wp020d",
      dcacc |-> "issi_rr_dc6_3"]),
  MetaSfdp("IS25WP016*", <<\h9d, \h70, \h15>>, 2048, 104, Plain),
  Sfdp("IS25WP016", <<\h9d, \h70, \h15>>, 2048, 133, [wp |-> "wpr_3bp_tb", dc |-> "is25wp020",
      dcacc |-> "issi_rr_dc6_3"]),
  Sfdp("IS25WP016D", <<\h9d, \h70, \h15>>, 2048, 133, [wp |-> "wpr_3bp_tb", dc |-> "is25wp020d",
      dcacc |-> "issi_rr_dc6_3"]),
  Sfdp("IS25WJ016F", <<\h9d, \h70, \h15>>, 2048, 133, [wp |-> "wpr_3bp_tb_sec_cmp"]) >>

issi_parts_5 == <<
  NoSfdp("IS25LQ016C", <<\h9d, \h14, \h45>>, 2048, S4_32_64, NV, 104, [qe |-> "SR1_BIT6", r |-> X2 \cup X4,
      p |-> {"1_1_4"}, wp |-> "wpr_3bp_tb"]),
  Sfdp("IS25LQ032B", <<\h9d, \h40, \h16>>, 4096, 104, [wp |-> "wpr_3bp_tb"]),
  MetaSfdp("IS25LP032*", <<\h9d, \h60, \h16>>, 4096, 104, Plain),
  Sfdp("IS25LP032", <<\h9d, \h60, \h16>>, 4096, 133, [alias |-> {"IS25LP032A", "IS25LP032B"}, dc |-> "is25lp032",
      dcacc |-> "issi_rr_dc4_3", fix |-> "is25xpxab_wpr_4bp_tbs"]),
  Sfdp("IS25LP032D", <<\h9d, \h60, \h16>>, 4096, 133, [wp |-> "wpr_3bp_tb", dc |-> "is25wp020d",
      dcacc |-> "issi_rr_dc6_3"]),
  MetaSfdp("IS25W*032", <<\h9d, \h70, \h16>>, 4096, 104, Plain),
  Sfdp("IS25WP032", <<\h9d, \h70, \h16>>, 4096, 133, [fix |-> "is25xpxab_wpr_4bp_tbs", dc |-> "is25wp020",
      dcacc |-> "issi_rr_dc6_3"]),
  Sfdp("IS25WP032A", <<\h9d, \h70, \h16>>, 4096, 133, [fix |-> "is25xpxab_wpr_4bp_tbs", dc |-> "is25wp020d",
      dcacc |-> "issi_rr_dc6_3"]),
  Sfdp("IS25WP032D", <<\h9d, \h70, \h16>>, 4096, 133, [wp |-> "wpr_3bp_tb", dc |-> "is25wp020d",
      dcacc |-> "issi_rr_dc6_3"]),
  Sfdp("IS25WJ032F", <<\h9d, \h70, \h16>>, 4096, 133, [wp |-> "wpr_3bp_tb_sec_cmp"]),
  Meta("PM/IS25LQ032C", <<\h7f, \h9d, \h46>>, 4096, S4_64, NV, 104, [qe |-> "SR1_BIT6", r |-> X2 \cup X4,
      p |-> {"1_1_4"}, wp |-> "wpr_3bp_tb"]),
  NoSfdp("IS25LQ032C", <<\h7f, \h9d, \h46>>, 4096, S4_32_64, NV, 104, [qe |-> "SR1_BIT6", r |-> X2 \cup X4,
      p |-> {"1_1_4"}, wp |-> "wpr_3bp_tb"]),
  MetaSfdp("IS25LP064*", <<\h9d, \h60, \h17>>, 8192, 104, Plain),
  Sfdp("IS25LP064", <<\h9d, \h60, \h17>>, 8192, 133, [alias |-> {"IS25LP064A", "IS25LP064B"}, dc |-> "is25lp032",
      dcacc |-> "issi_rr_dc4_3", fix |-> "is25xpxab_wpr_4bp_tbs"]),
  Sfdp("IS25LP064DJ", <<\h9d, \h60, \h17>>, 8192, 166, [dc |-> "is25lp064d", dcacc |-> "issi_rr_dc6_3",
      fix |-> "is25xpxab_wpr_4bp_tbs"]) >>

issi_parts_6 == <<
  Sfdp("IS25LP064DB", <<\h9d, \h60, \h17>>, 8192, 166, [dc |-> "is25lp064d", dcacc |-> "issi_rr_dc6_3",
      fix |-> "is25xp064db_wpr_4bp_tbs"]),
  MetaSfdp("IS25W*064", <<\h9d, \h70, \h17>>, 8192, 104, Plain),
  Sfdp("IS25WP064", <<\h9d, \h70, \h17>>, 8192, 133, [wp |-> "wpr_3bp_tb", dc |-> "is25wp020",
      dcacc |-> "issi_rr_dc6_3"]),
  Sfdp("IS25WP064A", <<\h9d, \h70, \h17>>, 8192, 133, [wp |-> "wpr_3bp_tb", dc |-> "is25wp020d",
      dcacc |-> "issi_rr_dc6_3"]),
  Sfdp("IS25WP064DJ", <<\h9d, \h70, \h17>>, 8192, 166, [dc |-> "is25wp064d", dcacc |-> "issi_rr_dc6_3",
      fix |-> "is25xpxab_wpr_4bp_tbs"]),
  Sfdp("IS25WP064DB", <<\h9d, \h70, \h17>>, 8192, 166, [dc |-> "is25wp064d", dcacc |-> "issi_rr_dc6_3",
      fix |-> "is25xp064db_wpr_4bp_tbs"]),
  Sfdp("IS25WJ064F", <<\h9d, \h70, \h17>>, 8192, 133, [wp |-> "wpr_3bp_tb_sec_cmp_ratio"]),
  MetaSfdp("IS25LP128*", <<\h9d, \h60, \h18>>, 16384, 104, [fix |-> "is25lp128x"]),
  Sfdp("IS25LP128", <<\h9d, \h60, \h18>>, 16384, 133, [dc |-> "is25lp032", dcacc |-> "issi_rr_dc4_3",
      fix |-> "is25xpxab_wpr_4bp_tbs"]),
  Sfdp("IS25LP128A", <<\h9d, \h60, \h18>>, 16384, 166, [alias |-> {"IS25LP128B"}, dc |-> "is25wp064d",
      dcacc |-> "issi_rr_dc6_3", fix |-> "is25xpxab_wpr_4bp_tbs"]),
  Sfdp("IS25LP128D", <<\h9d, \h60, \h18>>, 16384, 166, [dc |-> "is25lp064d", dcacc |-> "issi_rr_dc6_3",
      fix |-> "is25xp128d_wpr_4bp_tbs"]),
  Sfdp("IS25LP128FJ", <<\h9d, \h60, \h18>>, 16384, 166, [alias |-> {"IS25RLP128FJ"}, dc |-> "is25lp128f",
      dcacc |-> "issi_rr_dc6_3", fix |-> "is25xpxab_wpr_4bp_tbs"]),
  Sfdp("IS25LP128FB", <<\h9d, \h60, \h18>>, 16384, 166, [alias |-> {"IS25RLP128FB"}, dc |-> "is25lp128f",
      dcacc |-> "issi_rr_dc6_3", fix |-> "is25xp128d_wpr_4bp_tbs"]),
  Sfdp("IS25LE128EJ", <<\h9d, \h60, \h18>>, 16384, 166, [dc |-> "is25lp128f", dcacc |-> "issi_rr_dc6_3",
      fix |-> "is25xp128d_wpr_4bp_tbs"]),
  Sfdp("IS25LE128EK", <<\h9d, \h60, \h18>>, 16384, 166, [dc |-> "is25lp128f", dcacc |-> "issi_rr_dc6_3",
      fix |-> "is25xp256ek_wpr_4bp_tbs"]) >>

issi_parts_7 == <<
  MetaSfdp("IS25WP128*", <<\h9d, \h70, \h18>>, 16384, 60, [dc |-> "is25_dfl", dcacc |-> "issi_rr_dc6_3",
      fix |-> "is25wp128x"]),
  Sfdp("IS25WP128", <<\h9d, \h70, \h18>>, 16384, 133, [dc |-> "is25wp020", dcacc |-> "issi_rr_dc6_3",
      fix |-> "is25xpxab_wpr_4bp_tbs"]),
  Sfdp("IS25WP128A", <<\h9d, \h70, \h18>>, 16384, 166, [dc |-> "is25wp064d", dcacc |-> "issi_rr_dc6_3",
      fix |-> "is25xpxab_wpr_4bp_tbs"]),
  Sfdp("IS25WP128D", <<\h9d, \h70, \h18>>, 16384, 166, [dc |-> "is25lp064d", dcacc |-> "issi_rr_dc6_3",
      fix |-> "is25xp128d_wpr_4bp_tbs"]),
  Sfdp("IS25WP128FJ", <<\h9d, \h70, \h18>>, 16384, 166, [alias |-> {"IS25RWP128FJ"}, dc |-> "is25lp128f",
      dcacc |-> "issi_rr_dc6_3", fix |-> "is25xpxab_wpr_4bp_tbs"]),
  Sfdp("IS25WP128FB", <<\h9d, \h70, \h18>>, 16384, 166, [alias |-> {"IS25RWP128FB"}, dc |-> "is25lp128f",
      dcacc |-> "issi_rr_dc6_3", fix |-> "is25xp128d_wpr_4bp_tbs"]),
  Sfdp("IS25WE128EJ", <<\h9d, \h70, \h18>>, 16384, 166, [dc |-> "is25wp064d", dcacc |-> "issi_rr_dc6_3",
      fix |-> "is25xp128d_wpr_4bp_tbs"]),
  Sfdp("IS25WE128EK", <<\h9d, \h70, \h18>>, 16384, 166, [dc |-> "is25wp064d", dcacc |-> "issi_rr_dc6_3",
      fix |-> "is25xp256ek_wpr_4bp_tbs"]),
  MetaSfdp("IS25L*256", <<\h9d, \h60, \h19>>, 32768, 60, [dc |-> "is25_dfl", dcacc |-> "issi_rr_dc6_3",
      fix |-> "is25lx256"]),
  Sfdp("IS25LP256", <<\h9d, \h60, \h19>>, 32768, 166, [alias |-> {"IS25LP256A"}, dc |-> "is25wp064d",
      dcacc |-> "issi_rr_dc6_3", fix |-> "is25xpxab_wpr_4bp_tbs"]),
  Sfdp("IS25LP256D", <<\h9d, \h60, \h19>>, 32768, 166, [dc |-> "is25lp128f", dcacc |-> "issi_rr_dc6_3",
      fix |-> "is25xpxab_wpr_4bp_tbs"]),
  Sfdp("IS25LP256EJ", <<\h9d, \h60, \h19>>, 32768, 166, [alias |-> {"IS25RLP256EJ"}, dc |-> "is25lp128f",
      dcacc |-> "issi_rr_dc6_3", fix |-> "is25xp256ej_wpr_4bp_tbs"]),
  Sfdp("IS25LP256EK", <<\h9d, \h60, \h19>>, 32768, 166, [alias |-> {"IS25RLP256EK"}, dc |-> "is25lp128f",
      dcacc |-> "issi_rr_dc6_3", fix |-> "is25xp256ek_wpr_4bp_tbs"]),
  Sfdp("IS25LE256EJ", <<\h9d, \h60, \h19>>, 32768, 166, [dc |-> "is25wp064d", dcacc |-> "issi_rr_dc6_3",
      fix |-> "is25xp256ej_wpr_4bp_tbs"]) >>

issi_parts_8 == <<
  Sfdp("IS25LE256EK", <<\h9d, \h60, \h19>>, 32768, 166, [dc |-> "is25wp064d", dcacc |-> "issi_rr_dc6_3",
      fix |-> "is25xp256ek_wpr_4bp_tbs"]),
  MetaSfdp("IS25W*256", <<\h9d, \h70, \h19>>, 32768, 60, [dc |-> "is25_dfl", dcacc |-> "issi_rr_dc6_3",
      fix |-> "is25wx256"]),
  Sfdp("IS25WP256", <<\h9d, \h70, \h19>>, 32768, 166, [alias |-> {"IS25WP256A"}, dc |-> "is25wp064d",
      dcacc |-> "issi_rr_dc6_3", fix |-> "is25xpxab_wpr_4bp_tbs"]),
  Sfdp("IS25WP256D", <<\h9d, \h70, \h19>>, 32768, 133, [dc |-> "is25wp256d", dcacc |-> "issi_rr_dc6_3",
      fix |-> "is25xpxab_wpr_4bp_tbs"]),
  Sfdp("IS25WP256EJ", <<\h9d, \h70, \h19>>, 32768, 166, [alias |-> {"IS25RWP256EJ"}, dc |-> "is25wp064d",
      dcacc |-> "issi_rr_dc6_3", fix |-> "is25xp256ej_wpr_4bp_tbs"]),
  Sfdp("IS25WP256EK", <<\h9d, \h70, \h19>>, 32768, 166, [alias |-> {"IS25RWP256EK"}, dc |-> "is25wp064d",
      dcacc |-> "issi_rr_dc6_3", fix |-> "is25xp256ek_wpr_4bp_tbs"]),
  Sfdp("IS25WE256EJ", <<\h9d, \h70, \h19>>, 32768, 166, [dc |-> "is25wp064d", dcacc |-> "issi_rr_dc6_3",
      fix |-> "is25xp256ej_wpr_4bp_tbs"]),
  Sfdp("IS25WE256EK", <<\h9d, \h70, \h19>>, 32768, 166, [dc |-> "is25wp064d", dcacc |-> "issi_rr_dc6_3",
      fix |-> "is25xp256ek_wpr_4bp_tbs"]),
  MetaSfdp("IS25L*512M", <<\h9d, \h60, \h1a>>, 65536, 133, [dc |-> "is25lp512m", dcacc |-> "issi_rr_dc6_3",
      fix |-> "is25lx512m"]),
  Sfdp("IS25LP512MJ", <<\h9d, \h60, \h1a>>, 65536, 133, [dc |-> "is25lp512m", dcacc |-> "issi_rr_dc6_3",
      fix |-> "is25xp512mj_wpr_4bp_tbs"]),
  Sfdp("IS25LP512MK", <<\h9d, \h60, \h1a>>, 65536, 133, [dc |-> "is25lp512m", dcacc |-> "issi_rr_dc6_3",
      fix |-> "is25xp256ek_wpr_4bp_tbs"]),
  Sfdp("IS25LE512MJ", <<\h9d, \h60, \h1a>>, 65536, 133, [dc |-> "is25lp512m", dcacc |-> "issi_rr_dc6_3",
      fix |-> "is25xp512mj_wpr_4bp_tbs"]),
  Sfdp("IS25LE512MK", <<\h9d, \h60, \h1a>>, 65536, 133, [dc |-> "is25lp512m", dcacc |-> "issi_rr_dc6_3",
      fix |-> "is25xp256ek_wpr_4bp_tbs"]),
  MetaSfdp("IS25W*512M", <<\h9d, \h70, \h1a>>, 65536, 112, [dc |-> "is25wp512m", dcacc |-> "issi_rr_dc6_3",
      fix |-> "is25wx512m"]) >>

issi_parts_9 == <<
  Sfdp("IS25WP512MJ", <<\h9d, \h70, \h1a>>, 65536, 112, [dc |-> "is25wp512m", dcacc |-> "issi_rr_dc6_3",
      fix |-> "is25xp512mj_wpr_4bp_tbs"]),
  Sfdp("IS25WP512MK", <<\h9d, \h70, \h1a>>, 65536, 112, [dc |-> "is25wp512m", dcacc |-> "issi_rr_dc6_3",
      fix |-> "is25xp256ek_wpr_4bp_tbs"]),
  Sfdp("IS25WE512MJ", <<\h9d, \h70, \h1a>>, 65536, 112, [dc |-> "is25wp512m", dcacc |-> "issi_rr_dc6_3",
      fix |-> "is25xp512mj_wpr_4bp_tbs"]),
  Sfdp("IS25WE512MK", <<\h9d, \h70, \h1a>>, 65536, 112, [dc |-> "is25wp512m", dcacc |-> "issi_rr_dc6_3",
      fix |-> "is25xp256ek_wpr_4bp_tbs"]),
  MetaSfdp("IS25L*01G", <<\h9d, \h60, \h1b>>, 131072, 104, [dc |-> "is25lp512m", dcacc |-> "issi_rr_dc6_3",
      fix |-> "is25lx01g"]),
  Sfdp("IS25LP01GJ", <<\h9d, \h60, \h1b>>, 131072, 133, [dc |-> "is25lp512m", dcacc |-> "issi_rr_dc6_3",
      fix |-> "is25xp01gj_wpr_4bp_tbs"]),
  Sfdp("IS25LP01GK", <<\h9d, \h60, \h1b>>, 131072, 133, [dc |-> "is25lp512m", dcacc |-> "issi_rr_dc6_3",
      fix |-> "is25xp256ek_wpr_4bp_tbs"]),
  Sfdp("IS25LE01GJ", <<\h9d, \h60, \h1b>>, 131072, 133, [dc |-> "is25lp512m", dcacc |-> "issi_rr_dc6_3",
      fix |-> "is25xp01gj_wpr_4bp_tbs"]),
  Sfdp("IS25LE01GK", <<\h9d, \h60, \h1b>>, 131072, 133, [dc |-> "is25lp512m", dcacc |-> "issi_rr_dc6_3",
      fix |-> "is25xp256ek_wpr_4bp_tbs"]),
  MetaSfdp("IS25W*01G", <<\h9d, \h70, \h1b>>, 131072, 104, [dc |-> "is25wp01g", dcacc |-> "issi_rr_dc6_3",
      fix |-> "is25wx01g"]),
  Sfdp("IS25WP01GJ", <<\h9d, \h70, \h1b>>, 131072, 104, [dc |-> "is25wp01g", dcacc |-> "issi_rr_dc6_3",
      fix |-> "is25xp01gj_wpr_4bp_tbs"]),
  Sfdp("IS25WP01GK", <<\h9d, \h70, \h1b>>, 131072, 104, [dc |-> "is25wp01g", dcacc |-> "issi_rr_dc6_3",
      fix |-> "is25xp256ek_wpr_4bp_tbs"]),
  Sfdp("IS25WE01GJ", <<\h9d, \h70, \h1b>>, 131072, 104, [dc |-> "is25wp01g", dcacc |-> "issi_rr_dc6_3",
      fix |-> "is25xp01gj_wpr_4bp_tbs"]),
  Sfdp("IS25WE01GK", <<\h9d, \h70, \h1b>>, 131072, 104, [dc |-> "is25wp01g", dcacc |-> "issi_rr_dc6_3",
      fix |-> "is25xp256ek_wpr_4bp_tbs"]) >>

issi_parts_10 == <<
  MetaSfdp("IS25L*02GG", <<\h9d, \h60, \h22>>, 262144, 133, [dc |-> "is25lp512m", dcacc |-> "issi_rr_dc6_3",
      fix |-> "is25lx02gg"]),
  Sfdp("IS25LP02GGJ", <<\h9d, \h60, \h22>>, 262144, 133, [dc |-> "is25lp512m", dcacc |-> "issi_rr_dc6_3",
      fix |-> "is25xp02ggj_wpr_4bp_tbs"]),
  Sfdp("IS25LP02GGK", <<\h9d, \h60, \h22>>, 262144, 133, [dc |-> "is25lp512m", dcacc |-> "issi_rr_dc6_3",
      fix |-> "is25xp256ek_wpr_4bp_tbs"]),
  Sfdp("IS25LE02GGJ", <<\h9d, \h60, \h22>>, 262144, 133, [dc |-> "is25lp512m", dcacc |-> "issi_rr_dc6_3",
      fix |-> "is25xp02ggj_wpr_4bp_tbs"]),
  Sfdp("IS25LE02GGK", <<\h9d, \h60, \h22>>, 262144, 133, [dc |-> "is25lp512m", dcacc |-> "issi_rr_dc6_3",
      fix |-> "is25xp256ek_wpr_4bp_tbs"]),
  MetaSfdp("IS25W*02GG", <<\h9d, \h70, \h22>>, 262144, 133, [dc |-> "is25lp512m", dcacc |-> "issi_rr_dc6_3",
      fix |-> "is25wx02gg"]),
  Sfdp("IS25WP02GGJ", <<\h9d, \h70, \h22>>, 262144, 133, [dc |-> "is25lp512m", dcacc |-> "issi_rr_dc6_3",
      fix |-> "is25xp02ggj_wpr_4bp_tbs"]),
  Sfdp("IS25WP02GGK", <<\h9d, \h70, \h22>>, 262144, 133, [dc |-> "is25lp512m", dcacc |-> "issi_rr_dc6_3",
      fix |-> "is25xp256ek_wpr_4bp_tbs"]),
  Sfdp("IS25WE02GGJ", <<\h9d, \h70, \h22>>, 262144, 133, [dc |-> "is25lp512m", dcacc |-> "issi_rr_dc6_3",
      fix |-> "is25xp02ggj_wpr_4bp_tbs"]),
  Sfdp("IS25WE02GGK", <<\h9d, \h70, \h22>>, 262144, 133, [dc |-> "is25lp512m", dcacc |-> "issi_rr_dc6_3",
      fix |-> "is25xp256ek_wpr_4bp_tbs"]) >>

issi_parts ==
  issi_parts_1 \o issi_parts_2 \o issi_parts_3 \o issi_parts_4 \o 
    issi_parts_5 \o issi_parts_6 \o issi_parts_7 \o issi_parts_8 \o 
    issi_parts_9 \o issi_parts_10

pmc_parts_1 == <<
  NoSfdp("PM25LV512", NoId, 64, {}, NV, 25, [erase3 |-> pm25lv_erase_opcodes, wp |-> "is25cd512_wpr_2bp"]),
  NoSfdp("PM25LV512A", <<\h7f, \h9d, \h7b>>, 64, {}, NV, 100, [erase3 |-> pm25lv_erase_opcodes,
      wp |-> "is25cd512_wpr_2bp"]),
  Sfdp("PM25LQ512B", <<\h7f, \h9d, \h20>>, 64, 104, [wp |-> "wpr_3bp_tb", fix |-> "pm25lq512b"]),
  NoSfdp("PM25LV010", NoId, 128, {}, NV, 25, [erase3 |-> pm25lv_erase_opcodes, wp |-> "wpr_2bp_up_ratio"]),
  NoSfdp("PM25LV010A", <<\h7f, \h9d, \h7c>>, 128, {}, NV, 100, [erase3 |-> pm25lv_erase_opcodes,
      wp |-> "wpr_2bp_up_ratio"]),
  Sfdp("PM25LQ010B", <<\h7f, \h9d, \h21>>, 128, 104, [wp |-> "wpr_3bp_tb"]),
  NoSfdp("PM25LV020", <<\h7f, \h9d, \h7d>>, 256, {}, NV, 33, [erase3 |-> pm25lv020_erase_opcodes,
      wp |-> "wpr_2bp_up_ratio"]),
  NoSfdp("PM25LQ020", <<\h9d, \h11, \h42>>, 256, S4_64, NV, 104, [alias |-> {"PM25LQ020C"}, qe |-> "SR1_BIT6",
      r |-> X2 \cup X4, p |-> {"1_1_4"}, wp |-> "wpr_3bp_tb"]),
  Sfdp("PM25LQ020B", <<\h7f, \h9d, \h42>>, 256, 104, [wp |-> "wpr_3bp_tb"]),
  NoSfdp("PM25LV040", <<\h7f, \h9d, \h7e>>, 512, {}, NV, 33, [erase3 |-> pm25lv020_erase_opcodes,
      wp |-> "wpr_3bp_up"]),
  NoSfdp("PM25LQ040", <<\h9d, \h11, \h43>>, 512, S4_64, NV, 104, [alias |-> {"PM25LQ040C"}, qe |-> "SR1_BIT6",
      r |-> X2 \cup X4, p |-> {"1_1_4"}, wp |-> "wpr_3bp_tb"]),
  Sfdp("PM25LQ040B", <<\h7f, \h9d, \h7e>>, 512, 104, [wp |-> "wpr_3bp_tb"]),
  NoSfdp("PM25LV080B", <<\h7f, \h9d, \h13>>, 1024, S4_64, NV, 100, [wp |-> "wpr_3bp_up"]),
  NoSfdp("PM25LV016B", <<\h7f, \h9d, \h14>>, 2048, S4_64, NV, 100, [wp |-> "wpr_3bp_up"]) >>

pmc_parts_2 == <<
  NoSfdp("PM25LQ080", <<\h9d, \h13, \h44>>, 1024, S4_64, NV, 104, [qe |-> "SR1_BIT6", r |-> X2 \cup X4,
      p |-> {"1_1_4"}, wp |-> "wpr_3bp_tb"]),
  NoSfdp("PM25LQ016", <<\h7f, \h9d, \h45>>, 2048, S4_64, NV, 104, [qe |-> "SR1_BIT6", r |-> X2 \cup X4,
      p |-> {"1_1_4"}, wp |-> "wpr_3bp_tb"]),
  NoSfdp("PM25LQ032C", <<\h7f, \h9d, \h46>>, 4096, S4_64, NV, 104, [qe |-> "SR1_BIT6", r |-> X2 \cup X4,
      p |-> {"1_1_4"}, wp |-> "wpr_3bp_tb"]) >>

pmc_parts ==
  pmc_parts_1 \o pmc_parts_2
=============================================================================
