--------------------------- MODULE PartsMacronix ----------------------------
(***************************************************************************)
(* The chips of Macronix that the SPI-NOR driver knows, in the order of    *)
(* the vendors' tables: the first entry that matches an id is the one      *)
(* taken.                                                                  *)
(***************************************************************************)
EXTENDS SpiNorPart

macronix_parts_1 == <<
  Meta("MX25*512", <<\hc2, \h20, \h10>>, 64, S4_64, NV, 40, [fix |-> "mx25x512"]),
  NoSfdp("MX25L512C", <<\hc2, \h20, \h10>>, 64, S4_64, NV, 85, [wp |-> "wpr_2bp_all"]),
  NoSfdp("MX25L512E", <<\hc2, \h20, \h10>>, 64, S4_64, NV, 104, [r |-> {"1_1_2"}, dual |-> 80,
      wp |-> "wpr_2bp_all"]),
  NoSfdp("MX25V512", <<\hc2, \h20, \h10>>, 64, S4_64, NV, 50, [alias |-> {"MX25V512C"}, wp |-> "wpr_2bp_all"]),
  NoSfdp("MX25V512E", <<\hc2, \h20, \h10>>, 64, S4_64, NV, 75, [r |-> {"1_1_2"}, dual |-> 70, wp |-> "wpr_2bp_all"]),
  NoSfdp("MX25V5126F", <<\hc2, \h20, \h10>>, 64, S4_32_64, NV, 80, [r |-> X2, dual |-> 50, wp |-> "wpr_3bp_tb"]),
  NoSfdp("MX25L5121E", <<\hc2, \h22, \h10>>, 64, S4_64, NV, 45, [wp |-> "wpr_2bp_all"]),
  Sfdp("MX25V512F", <<\hc2, \h23, \h10>>, 64, 108, [vf |-> {"PP_1_4_4", "WPR_4BP_TB_OTP"}, dual |-> 104,
      quad |-> 104, dc |-> "mxic_cr1_bit6_all_104mhz", dcacc |-> "mxic_cr1_bit6"]),
  NoSfdp("MX25U5121E", <<\hc2, \h25, \h30>>, 64, S4_64, NV, 70, [qe |-> "SR1_BIT6", r |-> {"1_1_2", "1_4_4"},
      quad |-> 60, wp |-> "wpr_2bp_all"]),
  NoSfdp("MX25R512F", <<\hc2, \h28, \h10>>, 64, S4_32_64, NV, 80, [vf |-> {"WPR_4BP_TB_OTP"}, qe |-> "SR1_BIT6",
      r |-> X2 \cup X4, p |-> {"1_4_4"}]),
  Meta("MX25*10**", <<\hc2, \h20, \h11>>, 128, S4_64, NV, 40, [wp |-> "wpr_2bp_up", fix |-> "mx25l10xx"]),
  NoSfdp("MX25L1005", <<\hc2, \h20, \h11>>, 128, S4_64, NV, 66, [alias |-> {"MX25L1005C", "MX25L1025C"},
      wp |-> "wpr_2bp_up"]),
  NoSfdp("MX25L1006E", <<\hc2, \h20, \h11>>, 128, S4_64, NV, 104, [alias |-> {"MX25L1026E"}, r |-> {"1_1_2"},
      dual |-> 80, wp |-> "wpr_2bp_up"]),
  NoSfdp("MX25V1006E", <<\hc2, \h20, \h11>>, 128, S4_64, NV, 75, [r |-> {"1_1_2"}, dual |-> 70,
      wp |-> "wpr_2bp_up"]),
  NoSfdp("MX25V1006F", <<\hc2, \h20, \h11>>, 128, S4_32_64, NV, 50, [r |-> X2, dual |-> 50, wp |-> "wpr_3bp_tb"]) >>

macronix_parts_2 == <<
  NoSfdp("MX25L1021E", <<\hc2, \h22, \h11>>, 128, S4_64, NV, 45, [wp |-> "wpr_2bp_all"]),
  Sfdp("MX25V1035F", <<\hc2, \h23, \h11>>, 128, 108, [vf |-> {"PP_1_4_4", "WPR_4BP_TB_OTP"}, dual |-> 104,
      quad |-> 104, dc |-> "mxic_cr1_bit6_all_104mhz", dcacc |-> "mxic_cr1_bit6"]),
  NoSfdp("MX25U1021E", <<\hc2, \h25, \h31>>, 128, S4_64, NV, 70, [qe |-> "SR1_BIT6", r |-> {"1_1_2", "1_4_4"},
      quad |-> 60, wp |-> "wpr_2bp_all"]),
  NoSfdp("MX25R1035F", <<\hc2, \h28, \h11>>, 128, S4_32_64, NV, 33, [vf |-> {"WPR_4BP_TB_OTP"}, qe |-> "SR1_BIT6",
      r |-> X2 \cup X4, p |-> {"1_4_4"}]),
  Meta("MX25*20**", <<\hc2, \h20, \h12>>, 256, S4_64, NV, 40, Plain),
  NoSfdp("MX25L2005", <<\hc2, \h20, \h12>>, 256, S4_64, NV, 66, [alias |-> {"MX25L2005C"}, wp |-> "wpr_2bp_up"]),
  NoSfdp("MX25L2006E", <<\hc2, \h20, \h12>>, 256, S4_64, NV, 75, [alias |-> {"MX25L2026E", "MX25V2006E"},
      r |-> {"1_1_2"}, dual |-> 70, wp |-> "wpr_2bp_all"]),
  NoSfdp("MX25L2026C", <<\hc2, \h20, \h12>>, 256, S4_64, NV, 85, [fix |-> "mx25l2026c"]),
  NoSfdp("MX25V2033F", <<\hc2, \h20, \h12>>, 256, S4_32_64, NV, 50, [qe |-> "SR1_BIT6", r |-> X2 \cup X4,
      p |-> {"1_4_4"}, dual |-> 50, quad |-> 33, wp |-> "wpr_2bp_tb"]),
  NoSfdp("MX25V2039F", <<\hc2, \h20, \h12>>, 256, S4_32_64, NV, 50, [qe |-> "DONT_CARE", r |-> X2 \cup X4,
      p |-> {"1_4_4"}, dual |-> 50, quad |-> 33]),
  NoSfdp("MX25V20066", <<\hc2, \h20, \h12>>, 256, S4_32_64, NV, 50, [r |-> {"1_1_2"}, wp |-> "wpr_4bp_up"]),
  Sfdp("MX25V2035F", <<\hc2, \h23, \h12>>, 256, 108, [vf |-> {"PP_1_4_4", "WPR_4BP_TB_OTP"}, dual |-> 104,
      quad |-> 104, dc |-> "mxic_cr1_bit6_all_104mhz", dcacc |-> "mxic_cr1_bit6"]),
  Meta("MX25U20***", <<\hc2, \h25, \h32>>, 256, S4_32_64, NV, 40, [qe |-> "SR1_BIT6", r |-> {"1_2_2", "1_4_4"},
      p |-> {"1_4_4"}]),
  NoSfdp("MX25U2033E", <<\hc2, \h25, \h32>>, 256, S4_32_64, NV, 80, [qe |-> "SR1_BIT6", r |-> {"1_2_2", "1_4_4"},
      p |-> {"1_4_4"}, quad |-> 70, wp |-> "wpr_2bp_tb"]) >>

macronix_parts_3 == <<
  Sfdp("MX25U2035F", <<\hc2, \h25, \h32>>, 256, 108, [vf |-> {"PP_1_4_4", "WPR_4BP_TB_OTP"}, dual |-> 104,
      quad |-> 104, dc |-> "mxic_cr1_bit6_all_104mhz", dcacc |-> "mxic_cr1_bit6"]),
  Sfdp("MX25U20356", <<\hc2, \h25, \h32>>, 256, 133, [vf |-> {"PP_1_4_4", "WPR_4BP_TB_OTP"},
      dc |-> "mxic_cr1_bit7_6_104_133mhz", dcacc |-> "mxic_cr1_bit7_6"]),
  Sfdp("MX25R2035F", <<\hc2, \h28, \h12>>, 256, 108, [vf |-> {"PP_1_4_4", "WPR_4BP_TB_OTP"}, dual |-> 104,
      quad |-> 104, dc |-> "mxic_cr1_bit6_all_104mhz", dcacc |-> "mxic_cr1_bit6"]),
  Meta("MX25*40**", <<\hc2, \h20, \h13>>, 512, S4_64, NV, 40, Plain),
  NoSfdp("MX25L4005", <<\hc2, \h20, \h13>>, 512, S4_64, NV, 50, [alias |-> {"MX25L4005A", "MX25V4005C"},
      wp |-> "wpr_3bp_up"]),
  NoSfdp("MX25L4006E", <<\hc2, \h20, \h13>>, 512, S4_64, NV, 75, [alias |-> {"MX25L4026E", "MX25V4006E"},
      r |-> {"1_1_2"}, dual |-> 70, wp |-> "wpr_3bp_up"]),
  NoSfdp("MX25V40066", <<\hc2, \h20, \h13>>, 512, S4_32_64, NV, 50, [r |-> {"1_1_2"}, wp |-> "wpr_4bp_up"]),
  Sfdp("MX25V4035F", <<\hc2, \h23, \h13>>, 512, 108, [vf |-> {"PP_1_4_4", "WPR_4BP_TB_OTP"}, dual |-> 104,
      quad |-> 104, dc |-> "mxic_cr1_bit6_all_104mhz", dcacc |-> "mxic_cr1_bit6"]),
  NoSfdp("MX25V4035", <<\hc2, \h25, \h53>>, 512, S4_32_64, NV, 66, [qe |-> "SR1_BIT6", r |-> {"1_2_2", "1_4_4"},
      p |-> {"1_4_4"}, dual |-> 50, wp |-> "wpr_3bp_tb"]),
  Meta("MX25U40***", <<\hc2, \h25, \h33>>, 512, S4_32_64, NV, 40, [qe |-> "SR1_BIT6", r |-> {"1_2_2", "1_4_4"},
      p |-> {"1_4_4"}]),
  NoSfdp("MX25U4032E", <<\hc2, \h25, \h33>>, 512, S4_32_64, NV, 80, [alias |-> {"MX25U4033E"}, qe |-> "SR1_BIT6",
      r |-> {"1_2_2", "1_4_4"}, p |-> {"1_4_4"}, quad |-> 70, wp |-> "wpr_3bp_tb"]),
  NoSfdp("MX25U4035", <<\hc2, \h25, \h33>>, 512, S4_32_64, NV, 40, [qe |-> "SR1_BIT6", r |-> {"1_2_2", "1_4_4"},
      p |-> {"1_4_4"}, dual |-> 33, wp |-> "wpr_3bp_tb"]),
  Sfdp("MX25U4035F", <<\hc2, \h25, \h33>>, 512, 108, [vf |-> {"PP_1_4_4", "WPR_4BP_TB_OTP"}, dual |-> 104,
      quad |-> 104, dc |-> "mxic_cr1_bit6_all_104mhz", dcacc |-> "mxic_cr1_bit6"]),
  Sfdp("MX25U40356", <<\hc2, \h25, \h33>>, 512, 133, [vf |-> {"PP_1_4_4", "WPR_4BP_TB_OTP"},
      dc |-> "mxic_cr1_bit7_6_104_133mhz", dcacc |-> "mxic_cr1_bit7_6"]),
  Sfdp("MX25R4035F", <<\hc2, \h28, \h13>>, 512, 108, [vf |-> {"PP_1_4_4", "WPR_4BP_TB_OTP"}, dual |-> 104,
      quad |-> 104, dc |-> "mxic_cr1_bit6_all_104mhz", dcacc |-> "mxic_cr1_bit6"]) >>

macronix_parts_4 == <<
  Meta("MX25*80**", <<\hc2, \h20, \h14>>, 1024, S4_64, NV, 40, Plain),
  NoSfdp("MX25L8005", <<\hc2, \h20, \h14>>, 1024, S4_64, NV, 50, [alias |-> {"MX25V8005"}, wp |-> "wpr_3bp_up"]),
  NoSfdp("MX25L8006E", <<\hc2, \h20, \h14>>, 1024, S4_64, NV, 75, [alias |-> {"MX25L8008E", "MX25V8006E"},
      r |-> {"1_1_2"}, dual |-> 70, wp |-> "wpr_3bp_up"]),
  NoSfdp("MX25L8035E", <<\hc2, \h20, \h14>>, 1024, S4_64, NV, 108, [alias |-> {"MX25L8036E"}, qe |-> "SR1_BIT6",
      r |-> {"1_2_2", "1_4_4"}, dual |-> 80, quad |-> 80, wp |-> "wpr_3bp_tb"]),
  NoSfdp("MX25L8073E", <<\hc2, \h20, \h14>>, 1024, S4_64, NV, 108, [qe |-> "SR1_BIT6", r |-> X2 \cup X4,
      dual |-> 80, quad |-> 108, wp |-> "wpr_3bp_tb"]),
  NoSfdp("MX25V80066", <<\hc2, \h20, \h14>>, 1024, S4_32_64, NV, 50, [r |-> {"1_1_2"}, wp |-> "wpr_4bp_up"]),
  Sfdp("MX25V8035F", <<\hc2, \h23, \h14>>, 1024, 108, [vf |-> {"PP_1_4_4", "WPR_4BP_TB_OTP"}, dual |-> 104,
      quad |-> 104, dc |-> "mxic_cr1_bit6_all_104mhz", dcacc |-> "mxic_cr1_bit6"]),
  Meta("MX25U80**", <<\hc2, \h25, \h34>>, 1024, S4_32_64, NV, 33, Plain),
  NoSfdp("MX25U8035", <<\hc2, \h25, \h34>>, 1024, S4_32_64, NV, 40, [qe |-> "SR1_BIT6", r |-> {"1_2_2", "1_4_4"},
      p |-> {"1_4_4"}, dual |-> 33, wp |-> "wpr_3bp_tb"]),
  NoSfdp("MX25U8032E", <<\hc2, \h25, \h34>>, 1024, S4_32_64, NV, 80, [qe |-> "SR1_BIT6", r |-> {"1_2_2", "1_4_4"},
      p |-> {"1_4_4"}, quad |-> 70, wp |-> "wpr_3bp_tb"]),
  NoSfdp("MX25U8033E", <<\hc2, \h25, \h34>>, 1024, S4_32_64, NV, 80, [qe |-> "SR1_BIT6", r |-> X2 \cup {"1_4_4"},
      p |-> {"1_4_4"}, quad |-> 70, wp |-> "wpr_3bp_tb"]),
  NoSfdp("MX25U8035E", <<\hc2, \h25, \h34>>, 1024, S4_32_64, NV, 104, [qe |-> "SR1_BIT6", qpi |-> "35H_F5H",
      r |-> {"1_2_2", "1_4_4", "4_4_4"}, p |-> X4, dual |-> 84, quad |-> 84, wp |-> "wpr_3bp_tb"]),
  Sfdp("MX25U8035F", <<\hc2, \h25, \h34>>, 1024, 108, [vf |-> {"PP_1_4_4", "WPR_4BP_TB_OTP"}, dual |-> 104,
      quad |-> 104, dc |-> "mxic_cr1_bit6_all_104mhz", dcacc |-> "mxic_cr1_bit6"]),
  Sfdp("MX25U80356", <<\hc2, \h25, \h34>>, 1024, 133, [vf |-> {"PP_1_4_4", "WPR_4BP_TB_OTP"},
      dc |-> "mxic_cr1_bit7_6_104_133mhz", dcacc |-> "mxic_cr1_bit7_6"]) >>

macronix_parts_5 == <<
  NoSfdp("MX25V8035", <<\hc2, \h25, \h54>>, 1024, S4_32_64, NV, 66, [qe |-> "SR1_BIT6", r |-> {"1_2_2", "1_4_4"},
      p |-> {"1_4_4"}, dual |-> 50, wp |-> "wpr_3bp_tb"]),
  Sfdp("MX25R8035F", <<\hc2, \h28, \h14>>, 1024, 108, [vf |-> {"PP_1_4_4", "WPR_4BP_TB_OTP"}, dual |-> 104,
      quad |-> 104, dc |-> "mxic_cr1_bit6_all_104mhz", dcacc |-> "mxic_cr1_bit6"]),
  Meta("MX25*16**", <<\hc2, \h20, \h15>>, 2048, S4, NV, 40, Plain),
  NoSfdp("MX25L1605", <<\hc2, \h20, \h15>>, 2048, S4, NV, 50, [wp |-> "wpr_3bp_up"]),
  NoSfdp("MX25L1605A", <<\hc2, \h20, \h15>>, 2048, S4_64, NV, 66, [wp |-> "wpr_3bp_up"]),
  NoSfdp("MX25L1605D", <<\hc2, \h20, \h15>>, 2048, S4_64, NV, 66, [r |-> {"1_2_2"}, dual |-> 50,
      wp |-> "wpr_3bp_tb"]),
  NoSfdp("MX25L1606E", <<\hc2, \h20, \h15>>, 2048, S4_64, NV, 86, [r |-> {"1_1_2"}, dual |-> 80,
      wp |-> "wpr_3bp_tb"]),
  NoSfdp("MX25L1608D", <<\hc2, \h20, \h15>>, 2048, S4_64, NV, 86, [r |-> {"1_2_2"}, dual |-> 50,
      wp |-> "wpr_3bp_tb"]),
  NoSfdp("MX25L1608E", <<\hc2, \h20, \h15>>, 2048, S4_64, NV, 86, [r |-> {"1_1_2"}, dual |-> 80,
      wp |-> "wpr_3bp_tb"]),
  NoSfdp("MX25V16066", <<\hc2, \h20, \h15>>, 2048, S4_32_64, NV, 50, [alias |-> {"MX25V1606F"}, r |-> {"1_1_2"},
      wp |-> "mx25x_wpr_type2_4bp_tb0"]),
  Sfdp("MX25V1635F", <<\hc2, \h23, \h15>>, 2048, 80, [vf |-> {"PP_1_4_4"}, dc |-> "mxic_cr1_bit6_all_80mhz",
      fix |-> "mx25x_wpr_type2_4bp_tb", dcacc |-> "mxic_cr1_bit6"]),
  Meta("MX25L16***", <<\hc2, \h24, \h15>>, 2048, S4_64, NV, 40, [qe |-> "SR1_BIT6", p |-> {"1_4_4"},
      wp |-> "wpr_3bp_tb"]),
  NoSfdp("MX25L1633E", <<\hc2, \h24, \h15>>, 2048, S4_64, NV, 86, [alias |-> {"MX25L1635D"}, qe |-> "SR1_BIT6",
      r |-> {"1_2_2", "1_4_4"}, p |-> {"1_4_4"}, dual |-> 75, quad |-> 75, wp |-> "wpr_3bp_tb"]),
  NoSfdp("MX25L1636D", <<\hc2, \h24, \h15>>, 2048, S4_64, NV, 66, [qe |-> "SR1_BIT6", r |-> {"1_1_2", "1_1_4"},
      p |-> X4, wp |-> "wpr_3bp_tb"]) >>

macronix_parts_6 == <<
  NoSfdp("MX25L1673E", <<\hc2, \h24, \h15>>, 2048, S4_64, NV, 104, [qe |-> "SR1_BIT6", r |-> X2 \cup {"1_1_4"},
      p |-> {"1_4_4"}, dual |-> 85, quad |-> 85, wp |-> "wpr_3bp_tb"]),
  NoSfdp("MX25L1675E", <<\hc2, \h24, \h15>>, 2048, S4_64, NV, 104, [qe |-> "SR1_BIT6", r |-> X2 \cup X4,
      p |-> {"1_4_4"}, dual |-> 85, quad |-> 85, wp |-> "wpr_3bp_tb"]),
  NoSfdp("MX25L1635E", <<\hc2, \h25, \h15>>, 2048, S4_64, NV, 108, [qe |-> "SR1_BIT6", r |-> {"1_2_2", "1_4_4"},
      p |-> {"1_4_4"}, dual |-> 80, quad |-> 85, wp |-> "wpr_3bp_tb"]),
  NoSfdp("MX25L1636E", <<\hc2, \h25, \h15>>, 2048, S4_64, NV, 133, [qe |-> "SR1_BIT6", r |-> X2 \cup {"1_4_4"},
      p |-> {"1_4_4"}, dual |-> 108, quad |-> 85, wp |-> "wpr_3bp_tb"]),
  NoSfdp("MX25L1655D", <<\hc2, \h26, \h15>>, 2048, S4_64, NV, 66, [qe |-> "SR1_BIT6", r |-> {"1_2_2", "1_4_4"},
      p |-> {"1_4_4"}]),
  Entry("MX25U163*F", <<\hc2, \h25, \h35>>, 2048, {"META", "NO_OP"}, {}, 0, Plain),
  Sfdp("MX25U1632F", <<\hc2, \h25, \h35>>, 2048, 133, [alias |-> {"MX25U16356"},
      vf |-> {"PP_1_4_4", "WPR_4BP_TB_OTP"}, dc |-> "mx25u1632f", dcacc |-> "mxic_cr1_bit7_6"]),
  Sfdp("MX25U1633F", <<\hc2, \h25, \h35>>, 2048, 80, [vf |-> {"PP_1_4_4", "WPR_4BP_TB_OTP"},
      dc |-> "mxic_cr1_bit6_all_80mhz", dcacc |-> "mxic_cr1_bit6"]),
  NoSfdp("MX25U1635E", <<\hc2, \h25, \h35>>, 2048, S4_32_64, NV, 104, [qe |-> "SR1_BIT6", qpi |-> "35H_F5H",
      r |-> {"1_2_2", "1_4_4", "4_4_4"}, p |-> X4, dual |-> 84, quad |-> 84, wp |-> "mx25x_wpr_type2_4bp_tb0"]),
  NoSfdp("MX25U1635F", <<\hc2, \h25, \h35>>, 2048, S4_32_64, NV, 104, [qe |-> "SR1_BIT6", qpi |-> "35H_F5H",
      r |-> QPI \cup {"1_2_2"}, p |-> X4, dual |-> 84, quad |-> 84, wp |-> "mx25x_wpr_type2_4bp_tb0"]),
  Sfdp("MX25R1635F", <<\hc2, \h28, \h15>>, 2048, 80, [vf |-> {"PP_1_4_4", "WPR_4BP_TB_OTP"},
      dc |-> "mxic_cr1_bit6_all_80mhz", dcacc |-> "mxic_cr1_bit6"]),
  Meta("MX25L32**", <<\hc2, \h20, \h16>>, 4096, S4, NV, 40, Plain),
  NoSfdp("MX25L3205", <<\hc2, \h20, \h16>>, 4096, S4, NV, 50, [alias |-> {"MX25L3205A"}, wp |-> "wpr_3bp_up"]),
  NoSfdp("MX25L3205D", <<\hc2, \h20, \h16>>, 4096, S4_64, NV, 66, [r |-> {"1_2_2"}, dual |-> 50,
      wp |-> "wpr_3bp_tb"]) >>

macronix_parts_7 == <<
  NoSfdp("MX25L3206E", <<\hc2, \h20, \h16>>, 4096, S4_64, NV, 86, [r |-> {"1_1_2"}, dual |-> 80,
      wp |-> "mx25x_wpr_type2_4bp_tb0"]),
  NoSfdp("MX25L3208D", <<\hc2, \h20, \h16>>, 4096, S4_64, NV, 86, [r |-> {"1_2_2"}, dual |-> 50,
      wp |-> "wpr_3bp_tb"]),
  NoSfdp("MX25L3208E", <<\hc2, \h20, \h16>>, 4096, S4_64, NV, 86, [r |-> {"1_1_2"}, dual |-> 80,
      wp |-> "mx25x_wpr_type2_4bp_tb0"]),
  NoSfdp("MX25L3233F", <<\hc2, \h20, \h16>>, 4096, S4_32_64, NV, 133, [alias |-> {"MX25L3273F"},
      vf |-> {"WPR_4BP_TB_OTP"}, qe |-> "SR1_BIT6", r |-> X2 \cup X4, p |-> {"1_4_4"}, dual |-> 104, quad |-> 104,
      dc |-> "mxic_cr1_bit6_104_133mhz", dcacc |-> "mxic_cr1_bit6"]),
  NoSfdp("MX25L32356", <<\hc2, \h20, \h16>>, 4096, S4_32_64, NV, 133, [vf |-> {"WPR_4BP_TB_OTP"}, qe |-> "SR1_BIT6",
      qpi |-> "35H_F5H", r |-> X2 \cup QPI, p |-> X4, dual |-> 120, quad |-> 120, dc |-> "mxic_cr1_bit6_80_120mhz",
      dcacc |-> "mxic_cr1_bit6"]),
  NoSfdp("MX25L32366", <<\hc2, \h20, \h16>>, 4096, S4_32_64, NV, 133, [qe |-> "SR1_BIT6", qpi |-> "35H_F5H",
      r |-> X2 \cup QPI, p |-> X4, dual |-> 120, quad |-> 120, dc |-> "mxic_cr1_bit6_80_120mhz",
      dcacc |-> "mxic_cr1_bit6"]),
  NoSfdp("MX25L3235E", <<\hc2, \h20, \h16>>, 4096, S4_32_64, NV, 104, [vf |-> {"WPR_4BP_TB_OTP"}, qe |-> "SR1_BIT6",
      r |-> X2 \cup X4, p |-> {"1_4_4"}, dual |-> 86, quad |-> 104, dc |-> "mxic_cr1_bit7_86_104mhz",
      dcacc |-> "mxic_cr1_bit7"]),
  NoSfdp("MX25L3236F", <<\hc2, \h20, \h16>>, 4096, S4_32_64, NV, 133, [qe |-> "SR1_BIT6", r |-> X2 \cup X4,
      p |-> {"1_4_4"}, dual |-> 104, quad |-> 104, dc |-> "mxic_cr1_bit6_104_133mhz",
      fix |-> "mx25x_wpr_type2_4bp_tb", dcacc |-> "mxic_cr1_bit6"]),
  NoSfdp("MX25L3273E", <<\hc2, \h20, \h16>>, 4096, S4_32_64, NV, 104, [alias |-> {"MX25L3275E"},
      vf |-> {"WPR_4BP_TB_OTP"}, qe |-> "SR1_BIT6", r |-> X2 \cup X4, p |-> {"1_4_4"}, dual |-> 86, quad |-> 104,
      dc |-> "mxic_cr1_bit7_86_104mhz", dcacc |-> "mxic_cr1_bit7"]),
  Meta("MX25U32***", <<\hc2, \h25, \h36>>, 4096, S4_64, NV, 40, [fix |-> "mx25u32xx"]),
  NoSfdp("MX25L3239E", <<\hc2, \h25, \h36>>, 4096, S4_32_64, NV, 104, [qe |-> "SR1_BIT6", qpi |-> "35H_F5H",
      r |-> QPI, p |-> X4, wp |-> "wpr_4bp_up", dc |-> "mxic_cr1_bit7_86_104mhz", dcacc |-> "mxic_cr1_bit7"]) >>

macronix_parts_8 == <<
  Sfdp("MX25U3232F", <<\hc2, \h25, \h36>>, 4096, 133, [alias |-> {"MX25U32356"},
      vf |-> {"PP_1_4_4", "WPR_4BP_TB_OTP"}, dc |-> "mx25u1632f", dcacc |-> "mxic_cr1_bit7_6"]),
  NoSfdp("MX25U3235E", <<\hc2, \h25, \h36>>, 4096, S4_32_64, NV, 104, [qe |-> "SR1_BIT6", qpi |-> "35H_F5H",
      r |-> {"1_2_2", "1_4_4", "4_4_4"}, p |-> X4, dual |-> 84, quad |-> 84, wp |-> "mx25x_wpr_type2_4bp_tb0"]),
  NoSfdp("MX25U3235F", <<\hc2, \h25, \h36>>, 4096, S4_32_64, NV, 104, [qe |-> "SR1_BIT6", qpi |-> "35H_F5H",
      r |-> QPI \cup {"1_2_2"}, p |-> X4, dual |-> 84, quad |-> 84, wp |-> "mx25x_wpr_type2_4bp_tb0"]),
  NoSfdp("MX25U3273F", <<\hc2, \h25, \h36>>, 4096, S4_32_64, NV, 80, [vf |-> {"WPR_4BP_TB_OTP"}, qe |-> "SR1_BIT6",
      r |-> X2 \cup X4, p |-> {"1_4_4"}, dc |-> "mxic_cr1_bit6_all_80mhz", dcacc |-> "mxic_cr1_bit6"]),
  Sfdp("MX25R3235F", <<\hc2, \h28, \h16>>, 4096, 80, [vf |-> {"PP_1_4_4", "WPR_4BP_TB_OTP"},
      dc |-> "mxic_cr1_bit6_all_80mhz", dcacc |-> "mxic_cr1_bit6"]),
  Meta("MX25L32**D", <<\hc2, \h5e, \h16>>, 4096, S4_64, NV, 40, [qe |-> "SR1_BIT6", r |-> {"1_2_2", "1_4_4"},
      dual |-> 33, quad |-> 33, wp |-> "mx25x_wpr_type2_4bp_tb0"]),
  NoSfdp("MX25L3225D", <<\hc2, \h5e, \h16>>, 4096, S4_64, NV, 66, [alias |-> {"MX25L3235D"}, qe |-> "SR1_BIT6",
      r |-> {"1_2_2", "1_4_4"}, wp |-> "mx25x_wpr_type2_4bp_tb0"]),
  NoSfdp("MX25L3236D", <<\hc2, \h5e, \h16>>, 4096, S4_64, NV, 104, [qe |-> "SR1_BIT6", r |-> {"1_2_2", "1_4_4"},
      p |-> X4, dual |-> 75, quad |-> 75, wp |-> "mx25x_wpr_type2_4bp_tb0"]),
  NoSfdp("MX25L3237D", <<\hc2, \h5e, \h16>>, 4096, S4_64, NV, 40, [qe |-> "SR1_BIT6", r |-> {"1_2_2", "1_4_4"},
      dual |-> 33, quad |-> 33, wp |-> "mx25x_wpr_type2_4bp_tb0"]),
  NoSfdp("MX25L3255E", <<\hc2, \h9e, \h16>>, 4096, S4_32_64, NV, 104, [qe |-> "SR1_BIT6", r |-> X2 \cup X4,
      p |-> {"1_4_4"}, dual |-> 86, quad |-> 104, wp |-> "wpr_4bp_up", dc |-> "mxic_cr1_bit7_86_104mhz",
      dcacc |-> "mxic_cr1_bit7"]),
  Meta("MX25L64**", <<\hc2, \h20, \h17>>, 8192, S4, NV, 40, Plain),
  NoSfdp("MX25L6405", <<\hc2, \h20, \h17>>, 8192, S4, NV, 50, [wp |-> "wpr_4bp_up"]),
  NoSfdp("MX25L6405D", <<\hc2, \h20, \h17>>, 8192, S4_64, NV, 66, [r |-> {"1_2_2"}, dual |-> 50,
      wp |-> "wpr_3bp_tb"]) >>

macronix_parts_9 == <<
  NoSfdp("MX25L6406E", <<\hc2, \h20, \h17>>, 8192, S4_64, NV, 86, [r |-> {"1_1_2"}, dual |-> 80,
      wp |-> "mx25x_wpr_type2_4bp_tb0"]),
  NoSfdp("MX25L6408D", <<\hc2, \h20, \h17>>, 8192, S4_64, NV, 86, [r |-> {"1_2_2"}, dual |-> 50,
      wp |-> "wpr_3bp_tb"]),
  NoSfdp("MX25L6408E", <<\hc2, \h20, \h17>>, 8192, S4_64, NV, 86, [r |-> {"1_1_2"}, dual |-> 80,
      wp |-> "mx25x_wpr_type2_4bp_tb0"]),
  NoSfdp("MX25L6433F", <<\hc2, \h20, \h17>>, 8192, S4_32_64, NV, 133, [alias |-> {"MX25L6473F"},
      vf |-> {"WPR_4BP_TB_OTP"}, qe |-> "SR1_BIT6", r |-> X2 \cup X4, p |-> {"1_4_4"},
      dc |-> "mxic_cr1_bit6_80_133mhz", dcacc |-> "mxic_cr1_bit6"]),
  NoSfdp("MX25L64356", <<\hc2, \h20, \h17>>, 8192, S4_32_64, NV, 133, [alias |-> {"MX25L64736"},
      vf |-> {"WPR_4BP_TB_OTP"}, qe |-> "SR1_BIT6", qpi |-> "35H_F5H", r |-> X2 \cup QPI, p |-> X4, dual |-> 120,
      quad |-> 120, dc |-> "mxic_cr1_bit6_80_120mhz", dcacc |-> "mxic_cr1_bit6"]),
  NoSfdp("MX25L6435E", <<\hc2, \h20, \h17>>, 8192, S4_32_64, NV, 104, [alias |-> {"MX25L6473E", "MX25L6475E"},
      vf |-> {"WPR_4BP_TB_OTP"}, qe |-> "SR1_BIT6", r |-> X2 \cup X4, p |-> {"1_4_4"}, dual |-> 86, quad |-> 104,
      dc |-> "mxic_cr1_bit7_86_104mhz", dcacc |-> "mxic_cr1_bit7"]),
  NoSfdp("MX25L6436E", <<\hc2, \h20, \h17>>, 8192, S4_32_64, NV, 104, [alias |-> {"MX25L6445E", "MX25L6465E"},
      qe |-> "SR1_BIT6", r |-> {"1_1_2", "1_1_4"}, dual |-> 70, quad |-> 70, wp |-> "mx25x_wpr_type3_4bp_tb0"]),
  NoSfdp("MX25L6436F", <<\hc2, \h20, \h17>>, 8192, S4_32_64, NV, 133, [qe |-> "SR1_BIT6", r |-> X2 \cup X4,
      p |-> {"1_4_4"}, dc |-> "mxic_cr1_bit6_80_133mhz", dcacc |-> "mxic_cr1_bit6",
      fix |-> "mx25x_wpr_type2_4bp_tb"]),
  Meta("MX25U64***", <<\hc2, \h25, \h37>>, 8192, S4, NV, 40, [fix |-> "mx25u64xx"]),
  NoSfdp("MX25L6439E", <<\hc2, \h25, \h37>>, 8192, S4_32_64, NV, 104, [qe |-> "SR1_BIT6", qpi |-> "35H_F5H",
      r |-> QPI, p |-> X4, wp |-> "wpr_4bp_up", dc |-> "mxic_cr1_bit7_86_104mhz", dcacc |-> "mxic_cr1_bit7"]),
  Sfdp("MX25U6432F", <<\hc2, \h25, \h37>>, 8192, 133, [alias |-> {"MX25U64356", "MX25U6472F", "MX25U64736"},
      vf |-> {"PP_1_4_4", "WPR_4BP_TB_OTP"}, dc |-> "mx25u1632f", dcacc |-> "mxic_cr1_bit7_6"]),
  Sfdp("MX25U6433F", <<\hc2, \h25, \h37>>, 8192, 80, [vf |-> {"PP_1_4_4", "WPR_4BP_TB_OTP"}]) >>

macronix_parts_10 == <<
  NoSfdp("MX25U6435E", <<\hc2, \h25, \h37>>, 8192, S4_32_64, NV, 104, [qe |-> "SR1_BIT6", qpi |-> "35H_F5H",
      r |-> {"1_2_2", "1_4_4", "4_4_4"}, p |-> X4, dual |-> 84, quad |-> 84, wp |-> "mx25x_wpr_type2_4bp_tb0"]),
  NoSfdp("MX25U6435F", <<\hc2, \h25, \h37>>, 8192, S4_32_64, NV, 104, [alias |-> {"MX25U6473F"}, qe |-> "SR1_BIT6",
      qpi |-> "35H_F5H", r |-> X2 \cup QPI, p |-> X4, dual |-> 84, quad |-> 84, wp |-> "mx25x_wpr_type2_4bp_tb0"]),
  NoSfdp("MX25L6455E", <<\hc2, \h26, \h17>>, 8192, S4_32_64, NV, 104, [qe |-> "SR1_BIT6", r |-> {"1_2_2", "1_4_4"},
      dual |-> 70, quad |-> 70, wp |-> "wpr_4bp_up"]),
  Sfdp("MX25R6435F", <<\hc2, \h28, \h17>>, 8192, 80, [vf |-> {"PP_1_4_4", "WPR_4BP_TB_OTP"},
      dc |-> "mxic_cr1_bit6_all_80mhz", dcacc |-> "mxic_cr1_bit6"]),
  Sfdp("MX77L6450F", <<\hc2, \h75, \h17>>, 8192, 104, [vf |-> {"PP_1_4_4", "WPR_4BP_TB_OTP"}, dual |-> 84,
      quad |-> 84]),
  Meta("MX25L128***", <<\hc2, \h20, \h18>>, 16384, S4_64, NV, 40, Plain),
  NoSfdp("MX25L12805D", <<\hc2, \h20, \h18>>, 16384, S4_64, NV, 50, [wp |-> "wpr_4bp_up"]),
  Sfdp("MX25L12833F", <<\hc2, \h20, \h18>>, 16384, 133, [vf |-> {"PP_1_4_4", "WPR_4BP_TB_OTP"}, quad |-> 120,
      dc |-> "mx25l12833f", dcacc |-> "mxic_cr1_bit7_6"]),
  NoSfdp("MX25L128356", <<\hc2, \h20, \h18>>, 16384, S4_32_64, NV, 133, [alias |-> {"MX25L128736"},
      vf |-> {"WPR_4BP_TB_OTP"}, qe |-> "SR1_BIT6", qpi |-> "35H_F5H", r |-> X2 \cup QPI, p |-> X4, quad |-> 120,
      dc |-> "mx25l12833f", dcacc |-> "mxic_cr1_bit7_6"]),
  NoSfdp("MX25L12835E", <<\hc2, \h20, \h18>>, 16384, S4_32_64, NV, 104, [qe |-> "SR1_BIT6", r |-> X2 \cup X4,
      p |-> {"1_4_4"}, dual |-> 70, quad |-> 70, wp |-> "mx25x_wpr_type3_4bp_tb0"]),
  NoSfdp("MX25L12835F", <<\hc2, \h20, \h18>>, 16384, S4_32_64, NV, 133, [alias |-> {"MX25L12873F", "MX25L12875F"},
      vf |-> {"WPR_4BP_TB_OTP"}, qe |-> "SR1_BIT6", qpi |-> "35H_F5H", r |-> X2 \cup QPI, p |-> X4,
      dc |-> "mx25l12835f", dcacc |-> "mxic_cr1_bit7_6"]),
  NoSfdp("MX25L12836E", <<\hc2, \h20, \h18>>, 16384, S4_32_64, NV, 104, [alias |-> {"MX25L12865E"},
      qe |-> "SR1_BIT6", r |-> {"1_1_2", "1_1_4"}, dual |-> 70, quad |-> 70, wp |-> "mx25x_wpr_type3_4bp_tb0"]) >>

macronix_parts_11 == <<
  NoSfdp("MX25L12839F", <<\hc2, \h20, \h18>>, 16384, S4_32_64, NV, 133, [qe |-> "SR1_BIT6", qpi |-> "35H_F5H",
      r |-> QPI, p |-> X4, dc |-> "mx25l12839f", fix |-> "mx25x_wpr_type2_4bp_tb", dcacc |-> "mxic_cr1_bit7_6"]),
  NoSfdp("MX25L12845E", <<\hc2, \h20, \h18>>, 16384, S4_32_64, NV, 104, [qe |-> "SR1_BIT6",
      r |-> {"1_2_2", "1_4_4"}, dual |-> 70, quad |-> 70, wp |-> "mx25x_wpr_type3_4bp_tb0"]),
  Sfdp("MX25L12845G", <<\hc2, \h20, \h18>>, 16384, 120, [alias |-> {"MX25L12873G"},
      vf |-> {"PP_1_4_4", "WPR_4BP_TB_OTP"}, dc |-> "mx25l12845g", dcacc |-> "mxic_cr1_bit7_6"]),
  Sfdp("MX25L12850F", <<\hc2, \h20, \h18>>, 16384, 104, [vf |-> {"PP_1_4_4", "WPR_4BP_TB_OTP"}, dual |-> 84,
      quad |-> 84]),
  Sfdp("MX25L12872F", <<\hc2, \h20, \h18>>, 16384, 133, [vf |-> {"PP_1_4_4", "WPR_4BP_TB_OTP"}, quad |-> 120,
      dc |-> "mx25l12833f", dcacc |-> "mxic_cr1_bit7_6"]),
  Meta("MX25U128***", <<\hc2, \h25, \h38>>, 16384, S4_64, NV, 40, Plain),
  Sfdp("MX25U12832F", <<\hc2, \h25, \h38>>, 16384, 133, [alias |-> {"MX25U12872F"},
      vf |-> {"PP_1_4_4", "WPR_4BP_TB_OTP"}, dc |-> "mx25l12835f", dcacc |-> "mxic_cr1_bit7_6"]),
  NoSfdp("MX25U12835F", <<\hc2, \h25, \h38>>, 16384, S4_32_64, NV, 104, [qe |-> "SR1_BIT6", qpi |-> "35H_F5H",
      r |-> X2 \cup QPI, p |-> X4, dual |-> 84, quad |-> 84, wp |-> "wpr_4bp_up", dc |-> "mxic_cr1_bit7_104_133mhz",
      dcacc |-> "mxic_cr1_bit7"]),
  NoSfdp("MX25U12873F", <<\hc2, \h25, \h38>>, 16384, S4_32_64, NV, 104, [vf |-> {"WPR_4BP_TB_OTP"},
      qe |-> "SR1_BIT6", qpi |-> "35H_F5H", r |-> X2 \cup QPI, p |-> X4, dual |-> 84, quad |-> 84]),
  Sfdp("MX25U12843G", <<\hc2, \h25, \h38>>, 16384, 133, [vf |-> {"PP_1_4_4", "WPR_4BP_TB_OTP"},
      dc |-> "mx25l12843g", dcacc |-> "mxic_cr1_bit7_6"]),
  Meta("MX25L12855*", <<\hc2, \h26, \h18>>, 16384, S4_32_64, NV, 104, [qe |-> "SR1_BIT6", r |-> {"1_2_2", "1_4_4"},
      dual |-> 70, quad |-> 70]),
  NoSfdp("MX25L12855E", <<\hc2, \h26, \h18>>, 16384, S4_32_64, NV, 104, [qe |-> "SR1_BIT6",
      r |-> {"1_2_2", "1_4_4"}, dual |-> 70, quad |-> 70, wp |-> "wpr_4bp_up"]),
  NoSfdp("MX25L12855F", <<\hc2, \h26, \h18>>, 16384, S4_32_64, NV, 133, [vf |-> {"WPR_4BP_TB_OTP"},
      qe |-> "SR1_BIT6", qpi |-> "35H_F5H", r |-> X2 \cup QPI, p |-> X4, dc |-> "mx25l12835f",
      dcacc |-> "mxic_cr1_bit7_6"]) >>

macronix_parts_12 == <<
  Sfdp("MX77L12850F", <<\hc2, \h75, \h18>>, 16384, 104, [vf |-> {"PP_1_4_4", "WPR_4BP_TB_OTP"}, dual |-> 84,
      quad |-> 84]),
  Meta("MX25L25[67]***", <<\hc2, \h20, \h19>>, 32768, S4_32_64, NV, 60, [qe |-> "SR1_BIT6", a4b |-> {"B7H_E9H"},
      r |-> X2 \cup X4]),
  Sfdp("MX25L25633F", <<\hc2, \h20, \h19>>, 32768, 120, [alias |-> {"MX25L25672F", "MX25L25733F"},
      vf |-> {"PP_1_4_4", "WPR_4BP_TB_OTP"}, dc |-> "mx25l25633f", dcacc |-> "mxic_cr1_bit7_6"]),
  NoSfdp("MX25L25635E", <<\hc2, \h20, \h19>>, 32768, S4_32_64, NV, 104, [qe |-> "SR1_BIT6", a4b |-> {"B7H_E9H"},
      r |-> X2 \cup X4, dual |-> 70, quad |-> 70, wp |-> "mx25x_wpr_type3_4bp_tb0"]),
  NoSfdp("MX25L25635F", <<\hc2, \h20, \h19>>, 32768, S4_32_64, NV, 133, [vf |-> {"WPR_4BP_TB_OTP"},
      qe |-> "SR1_BIT6", qpi |-> "35H_F5H", a4b |-> {"B7H_E9H", "EAR", "OPCODE"}, r |-> X2 \cup QPI, p |-> X4,
      dc |-> "mx25l12835f", dcacc |-> "mxic_cr1_bit7_6"]),
  NoSfdp("MX25L25639F", <<\hc2, \h20, \h19>>, 32768, S4_32_64, NV, 133, [vf |-> {"WPR_4BP_TB_OTP"},
      qe |-> "SR1_BIT6", qpi |-> "35H_F5H", a4b |-> {"B7H_E9H", "EAR", "OPCODE"}, r |-> QPI, p |-> X4,
      dc |-> "mx25l12839f", dcacc |-> "mxic_cr1_bit7_6"]),
  Sfdp("MX25L25645G", <<\hc2, \h20, \h19>>, 32768, 120, [alias |-> {"MX25L25673G", "MX25L25745G", "MX25L25773G"},
      vf |-> {"PP_1_4_4", "WPR_4BP_TB_OTP"}, dc |-> "mx25l12845g", dcacc |-> "mxic_cr1_bit7_6"]),
  NoSfdp("MX25L25735E", <<\hc2, \h20, \h19>>, 32768, S4_32_64, NV, 104, [qe |-> "SR1_BIT6", a4b |-> {"ALWAYS"},
      r |-> X2 \cup X4, dual |-> 70, quad |-> 70, wp |-> "mx25x_wpr_type3_4bp_tb0"]),
  NoSfdp("MX25L25735F", <<\hc2, \h20, \h19>>, 32768, S4_32_64, NV, 133, [vf |-> {"WPR_4BP_TB_OTP"},
      qe |-> "SR1_BIT6", qpi |-> "35H_F5H", a4b |-> {"ALWAYS"}, r |-> X2 \cup QPI, p |-> X4, dc |-> "mx25l12835f",
      dcacc |-> "mxic_cr1_bit7_6"]),
  Meta("MX25U256***", <<\hc2, \h25, \h39>>, 32768, S4_32_64, NV, 60, [qe |-> "SR1_BIT6", a4b |-> {"B7H_E9H"},
      r |-> X2 \cup X4, p |-> {"1_4_4"}]),
  NoSfdp("MX25U25635F", <<\hc2, \h25, \h39>>, 32768, S4_32_64, NV, 108, [qe |-> "SR1_BIT6", qpi |-> "35H_F5H",
      a4b |-> {"B7H_E9H", "EAR", "OPCODE"}, r |-> X2 \cup QPI, p |-> X4, wp |-> "wpr_4bp_up", dc |-> "mx25u25635f",
      dcacc |-> "mxic_cr1_bit7_6"]) >>

macronix_parts_13 == <<
  Sfdp("MX25U25643G", <<\hc2, \h25, \h39>>, 32768, 104, [alias |-> {"MX25U25672G"},
      vf |-> {"PP_1_4_4", "WPR_4BP_TB_OTP"}, dual |-> 120, quad |-> 104, dc |-> "mx25l25643g",
      dcacc |-> "mxic_cr1_bit7_6"]),
  Sfdp("MX25U25645G", <<\hc2, \h25, \h39>>, 32768, 166, [alias |-> {"MX25U25673G"},
      vf |-> {"PP_1_4_4", "WPR_4BP_TB_OTP"}, quad |-> 133, dc |-> "mx25u25645g", dcacc |-> "mxic_cr1_bit7_6"]),
  Entry("MX25L25655*", <<\hc2, \h26, \h19>>, 32768, {"NO_OP", "NO_SFDP"}, {}, 0, Plain),
  NoSfdp("MX25L25655E", <<\hc2, \h26, \h19>>, 32768, S4_32_64, NV, 104, [qe |-> "SR1_BIT6", a4b |-> {"B7H_E9H"},
      r |-> X2 \cup X4, dual |-> 70, quad |-> 70, wp |-> "mx25x_wpr_type3_4bp_tb0"]),
  NoSfdp("MX25L25655F", <<\hc2, \h26, \h19>>, 32768, S4_32_64, NV, 133, [vf |-> {"WPR_4BP_TB_OTP"},
      qe |-> "SR1_BIT6", qpi |-> "35H_F5H", a4b |-> {"B7H_E9H", "EAR", "OPCODE"}, r |-> X2 \cup QPI, p |-> X4,
      dc |-> "mx25l12835f", dcacc |-> "mxic_cr1_bit7_6"]),
  Sfdp("MX25UM25645G", <<\hc2, \h80, \h39>>, 32768, 133, [vf |-> {"WPR_4BP_TB_OTP"}, dc |-> "mxix_octal",
      dcacc |-> "mxic_cr2_300"]),
  Sfdp("MX25UM25345G", <<\hc2, \h83, \h39>>, 32768, 133, [vf |-> {"WPR_4BP_TB_OTP"}, dc |-> "mxix_octal",
      dcacc |-> "mxic_cr2_300"]),
  Sfdp("MX25LM25645G", <<\hc2, \h85, \h39>>, 32768, 133, [vf |-> {"WPR_4BP_TB_OTP"}, dc |-> "mxix_octal",
      dcacc |-> "mxic_cr2_300"]),
  Sfdp("MX25U25645G-54", <<\hc2, \h95, \h39>>, 32768, 166, [vf |-> {"PP_1_4_4", "WPR_4BP_TB_OTP"}, quad |-> 133,
      dc |-> "mx25u25645g54", dcacc |-> "mxic_cr1_bit7_6"]),
  Entry("MX25L512**G", <<\hc2, \h20, \h1a>>, 65536, S4_32_64 \cup NV \cup {"META"}, {"1_1_1"}, 60, [
      vf |-> {"PP_1_4_4", "WPR_4BP_TB_OTP"}, qe |-> "SR1_BIT6", a4b |-> {"B7H_E9H"}, r |-> {"1_1_2", "1_1_4"},
      p |-> {"1_4_4"}, dc |-> "mxic_cr1_dc7_6_dfl_table", fix |-> "mx66l512xxx", dcacc |-> "mxic_cr1_bit7_6"]),
  Sfdp("MX25L51237G", <<\hc2, \h20, \h1a>>, 65536, 104, [vf |-> {"PP_1_4_4", "WPR_4BP_TB_OTP"},
      dc |-> "mx25l51237g", dcacc |-> "mxic_cr1_bit7_6"]),
  Sfdp("MX25L51245G", <<\hc2, \h20, \h1a>>, 65536, 133, [alias |-> {"MX25L51273G"},
      vf |-> {"PP_1_4_4", "WPR_4BP_TB_OTP"}, dc |-> "mx25u25645g", dcacc |-> "mxic_cr1_bit7_6"]),
  Sfdp("MX25L51245J", <<\hc2, \h20, \h1a>>, 65536, 120, [vf |-> {"PP_1_4_4", "WPR_4BP_TB_OTP"}, dual |-> 104,
      quad |-> 104, dc |-> "mx25l51245j", dcacc |-> "mxic_cr1_bit7_6"]) >>

macronix_parts_14 == <<
  NoSfdp("MX66L51235F", <<\hc2, \h20, \h1a>>, 65536, S4_32_64, NV, 133, [vf |-> {"WPR_4BP_TB_OTP"},
      qe |-> "SR1_BIT6", qpi |-> "35H_F5H", a4b |-> {"B7H_E9H", "EAR", "OPCODE"}, r |-> X2 \cup QPI, p |-> X4,
      dc |-> "mx25l12835f", dcacc |-> "mxic_cr1_bit7_6"]),
  Sfdp("MX25U51245G", <<\hc2, \h25, \h3a>>, 65536, 166, [alias |-> {"MX25U51293G"},
      vf |-> {"PP_1_4_4", "WPR_4BP_TB_OTP"}, quad |-> 133, dc |-> "mx25u25645g", dcacc |-> "mxic_cr1_bit7_6"]),
  Sfdp("MX25UM51245G", <<\hc2, \h80, \h3a>>, 65536, 133, [vf |-> {"WPR_4BP_TB_OTP"}, dc |-> "mxix_octal",
      dcacc |-> "mxic_cr2_300"]),
  Sfdp("MX25UM51345G", <<\hc2, \h81, \h3a>>, 65536, 133, [vf |-> {"WPR_4BP_TB_OTP"}, dc |-> "mxix_octal",
      dcacc |-> "mxic_cr2_300"]),
  Sfdp("MX25LM51245G", <<\hc2, \h85, \h3a>>, 65536, 133, [vf |-> {"WPR_4BP_TB_OTP"}, dc |-> "mxix_octal",
      dcacc |-> "mxic_cr2_300"]),
  Sfdp("MX25U51245G-54", <<\hc2, \h95, \h3a>>, 65536, 166, [vf |-> {"PP_1_4_4", "WPR_4BP_TB_OTP"}, quad |-> 133,
      dc |-> "mx25u25645g54", dcacc |-> "mxic_cr1_bit7_6"]),
  MetaSfdp("MX66L1G45*", <<\hc2, \h20, \h1b>>, 131072, 60, [vf |-> {"PP_1_4_4", "WPR_4BP_TB_OTP"},
      dc |-> "mxic_cr1_dc7_6_dfl_table", dcacc |-> "mxic_cr1_bit7_6"]),
  Sfdp("MX66L1G45G", <<\hc2, \h20, \h1b>>, 131072, 166, [vf |-> {"PP_1_4_4", "WPR_4BP_TB_OTP"}, quad |-> 133,
      dc |-> "mx25u25645g", dcacc |-> "mxic_cr1_bit7_6"]),
  Sfdp("MX66L1G45J", <<\hc2, \h20, \h1b>>, 131072, 120, [vf |-> {"PP_1_4_4", "WPR_4BP_TB_OTP"}, dual |-> 104,
      quad |-> 104, dc |-> "mx25l51245j", dcacc |-> "mxic_cr1_bit7_6"]),
  Sfdp("MX66U1G45G", <<\hc2, \h25, \h3b>>, 131072, 166, [alias |-> {"MX66U1G93G"},
      vf |-> {"PP_1_4_4", "WPR_4BP_TB_OTP"}, quad |-> 133, dc |-> "mx25u25645g", dcacc |-> "mxic_cr1_bit7_6"]),
  Sfdp("MX66UM1G45G", <<\hc2, \h80, \h3b>>, 131072, 166, [vf |-> {"WPR_4BP_TB_OTP"}, dc |-> "mxix_octal",
      dcacc |-> "mxic_cr2_300"]),
  Sfdp("MX66LM1G45G", <<\hc2, \h85, \h3b>>, 131072, 133, [vf |-> {"WPR_4BP_TB_OTP"}, dc |-> "mxix_octal",
      dcacc |-> "mxic_cr2_300"]),
  Sfdp("MX66U1G45G-54", <<\hc2, \h95, \h3b>>, 131072, 166, [vf |-> {"PP_1_4_4", "WPR_4BP_TB_OTP"}, quad |-> 133,
      dc |-> "mx25u25645g54", dcacc |-> "mxic_cr1_bit7_6"]),
  MetaSfdp("MX66L2G45*", <<\hc2, \h20, \h1c>>, 262144, 60, [vf |-> {"PP_1_4_4", "WPR_4BP_TB_OTP"},
      dc |-> "mxic_cr1_dc7_6_dfl_table", dcacc |-> "mxic_cr1_bit7_6"]),
  Sfdp("MX66L2G45G", <<\hc2, \h20, \h1c>>, 262144, 133, [vf |-> {"PP_1_4_4", "WPR_4BP_TB_OTP"},
      dc |-> "mx25u25645g", dcacc |-> "mxic_cr1_bit7_6"]) >>

macronix_parts_15 == <<
  Sfdp("MX66L2G45J", <<\hc2, \h20, \h1c>>, 262144, 120, [vf |-> {"PP_1_4_4", "WPR_4BP_TB_OTP"}, dual |-> 104,
      quad |-> 104, dc |-> "mx25l51245j", dcacc |-> "mxic_cr1_bit7_6"]),
  Sfdp("MX66U2G45G", <<\hc2, \h25, \h3c>>, 262144, 166, [vf |-> {"PP_1_4_4", "WPR_4BP_TB_OTP"}, quad |-> 133,
      dc |-> "mx25u25645g", dcacc |-> "mxic_cr1_bit7_6"]),
  Sfdp("MX66UM2G45G", <<\hc2, \h80, \h3c>>, 262144, 133, [vf |-> {"WPR_4BP_TB_OTP"}, dc |-> "mxix_octal",
      dcacc |-> "mxic_cr2_300"]),
  Sfdp("MX66U2G45G-54", <<\hc2, \h95, \h3c>>, 262144, 166, [vf |-> {"PP_1_4_4", "WPR_4BP_TB_OTP"}, quad |-> 133,
      dc |-> "mx25u25645g54", dcacc |-> "mxic_cr1_bit7_6"]) >>

macronix_parts ==
  macronix_parts_1 \o macronix_parts_2 \o macronix_parts_3 \o macronix_parts_4 \o 
    macronix_parts_5 \o macronix_parts_6 \o macronix_parts_7 \o macronix_parts_8 \o 
    macronix_parts_9 \o macronix_parts_10 \o macronix_parts_11 \o macronix_parts_12 \o 
    macronix_parts_13 \o macronix_parts_14 \o macronix_parts_15
=============================================================================
