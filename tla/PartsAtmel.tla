----------------------------- MODULE PartsAtmel -----------------------------
(***************************************************************************)
(* The chips of Atmel (later Adesto and Renesas), ESMT, Intel and SST that *)
(* the SPI-NOR driver knows, in the order of the vendors' tables: the      *)
(* first entry that matches an id is the one taken.                        *)
(***************************************************************************)
EXTENDS SpiNorPart

\* Opcodes of their own.
at25f_read_opcodes == "1_1_1" :> Cmd(\h03, 0)
at25f_erase_opcodes_64k == {Sector(64, \h52)}
at26df041_pp_opcodes == "1_1_1" :> Cmd(\h11, 0)
sst25vf512_read_opcodes == "1_1_1" :> Cmd(\h03, 0)
sst25vf064c_pp_opcodes == ("1_1_1" :> Cmd(\h02, 0)) @@ ("1_1_2" :> Cmd(\ha2, 0))

atmel_parts_1 == <<
  NoSfdp("AT25DF256", <<\h1f, \h40, \h00, \h00>>, 32, S4_32, NV, 104, [alias |-> {"AT25DN256"}, r |-> {"1_1_2"},
      dual |-> 50, wp |-> "wpr_1bp"]),
  NoSfdp("AT25F512", NoId, 64, S32, NV, 20, [read3 |-> at25f_read_opcodes, wp |-> "at25f512_wpr"]),
  NoSfdp("AT25F512A", NoId, 64, S32, NV, 33, [read3 |-> at25f_read_opcodes, wp |-> "wpr_1bp"]),
  NoSfdp("AT25F512B", <<\h1f, \h65, \h00, \h00>>, 64, S4_32, NV, 70, [wp |-> "wpr_1bp"]),
  NoSfdp("AT25DF512C", <<\h1f, \h65, \h01, \h00>>, 64, S4_32, NV, 104, [alias |-> {"AT25DN512C", "AT25XE512C"},
      r |-> {"1_1_2"}, dual |-> 50, wp |-> "wpr_1bp"]),
  NoSfdp("AT25F1024", NoId, 128, S32, NV, 20, [read3 |-> at25f_read_opcodes, wp |-> "wpr_2bp_up_ratio"]),
  NoSfdp("AT25FS010", <<\h1f, \h66, \h01>>, 128, S4_32, NV, 50, [wp |-> "at25fs010_wpr"]),
  NoSfdp("AT25DF011", <<\h1f, \h42, \h00, \h00>>, 128, S4_32, NV, 104, [alias |-> {"AT25DN011", "AT25XE011"},
      r |-> {"1_1_2"}, dual |-> 50, wp |-> "wpr_1bp"]),
  Entry("AT25EU0011A", <<\h1f, \h10, \h01>>, 128, {"PP_DUAL_INPUT"}, {}, 85, [dual |-> 70, quad |-> 70,
      wp |-> "wpr_3bp_tb_sec_cmp", fix |-> "at25eu"]),
  NoSfdp("AT25F2048", NoId, 256, {}, NV, 33, [read3 |-> at25f_read_opcodes, erase3 |-> at25f_erase_opcodes_64k,
      wp |-> "wpr_2bp_up_ratio"]),
  NoSfdp("AT25DF021", <<\h1f, \h43, \h00, \h00>>, 256, S4_32_64, NV, 50, Plain),
  NoSfdp("AT25DF021A", <<\h1f, \h43, \h01, \h00>>, 256, S4_32_64, NV, 70, [alias |-> {"AT25XE021A", "AT25XV021A"},
      r |-> {"1_1_2"}, p |-> {"1_1_2"}, dual |-> 40]),
  Entry("AT25EU0021A", <<\h1f, \h11, \h01>>, 256, {"PP_DUAL_INPUT"}, {}, 85, [dual |-> 70, quad |-> 70,
      wp |-> "wpr_3bp_tb_sec_cmp", fix |-> "at25eu"]),
  NoSfdp("AT25F4096", NoId, 512, {}, NV, 33, [read3 |-> at25f_read_opcodes, erase3 |-> at25f_erase_opcodes_64k,
      wp |-> "wpr_3bp_up_ratio"]) >>

atmel_parts_2 == <<
  NoSfdp("AT25FS040", <<\h1f, \h66, \h04>>, 512, S4_64, NV, 50, [wp |-> "at25fs040_wpr"]),
  Entry("AT26DF041", <<\h1f, \h44, \h00, \h00>>, 512, S4 \cup {"NO_SFDP", "NO_WREN"}, {"1_1_1"}, 25, [
      pp3 |-> at26df041_pp_opcodes]),
  NoSfdp("AT25DF041A", <<\h1f, \h44, \h01, \h00>>, 512, S4_32_64, NV, 50, Plain),
  NoSfdp("AT25DF041B", <<\h1f, \h44, \h02, \h00>>, 512, S4_32_64, NV, 85, [alias |-> {"AT25XE041B", "AT25XV041B"},
      r |-> {"1_1_2"}, p |-> {"1_1_2"}, dual |-> 40]),
  Entry("AT25FF041A", <<\h1f, \h44, \h08, \h01>>, 512, {"PP_DUAL_INPUT"}, {}, 104, [
      wp |-> "wpr_3bp_tb_sec_cmp", wpacc |-> "srcr_comb", dc |-> "at25ff041a", dcacc |-> "atmel_sr5_dc6_4"]),
  Entry("AT25XE041D", <<\h1f, \h44, \h0c, \h01>>, 512, {"PP_DUAL_INPUT"}, {}, 104, [
      wp |-> "wpr_3bp_tb_sec_cmp", wpacc |-> "srcr_comb", dc |-> "at25ff041a", dcacc |-> "atmel_sr5_dc6_4"]),
  Entry("AT25EU0041A", <<\h1f, \h14, \h01>>, 512, {"PP_DUAL_INPUT"}, {}, 85, [dual |-> 70, quad |-> 70,
      wp |-> "wpr_3bp_tb_sec_cmp", fix |-> "at25eu"]),
  Meta("AT25SF041 (Meta)", <<\h1f, \h84, \h01>>, 512, S4_32_64, NV50, 70, [qe |-> "SR2_BIT1_WR_SR1",
      r |-> X2 \cup X4, wp |-> "wpr_3bp_tb_sec_cmp", fix |-> "at25sf041"]),
  NoSfdp("AT25SF041", <<\h1f, \h84, \h01>>, 512, S4_32_64, NV50, 70, [qe |-> "SR2_BIT1_WR_SR1", r |-> X2 \cup X4,
      wp |-> "wpr_3bp_tb_sec_cmp"]),
  Sfdp("AT25SF041B", <<\h1f, \h84, \h01>>, 512, 85, [wp |-> "wpr_3bp_tb_sec_cmp", wpacc |-> "srcr_comb"]),
  NoSfdp("AT26F004", <<\h1f, \h04, \h00, \h00>>, 512, S4_32_64, NV, 33, Plain),
  NoSfdp("AT26DF081A", <<\h1f, \h45, \h01, \h00>>, 1024, S4_32_64, NV, 70, Plain),
  NoSfdp("AT25DF081A", <<\h1f, \h45, \h01, \h01, \h00>>, 1024, S4_32_64, NV, 85, [r |-> {"1_1_2"}, p |-> {"1_1_2"}]),
  NoSfdp("AT25DL081", <<\h1f, \h45, \h02, \h01, \h00>>, 1024, S4_32_64, NV, 85, [r |-> {"1_1_2"}, p |-> {"1_1_2"}]),
  Entry("AT25FF081A", <<\h1f, \h45, \h08, \h01>>, 1024, {"PP_DUAL_INPUT"}, {}, 104, [
      wp |-> "wpr_3bp_tb_sec_cmp", wpacc |-> "srcr_comb", dc |-> "at25ff041a", dcacc |-> "atmel_sr5_dc6_4"]) >>

atmel_parts_3 == <<
  Entry("AT25XE081D", <<\h1f, \h45, \h0c, \h01>>, 1024, {"PP_DUAL_INPUT"}, {}, 104, [
      wp |-> "wpr_3bp_tb_sec_cmp", wpacc |-> "srcr_comb", dc |-> "at25ff041a", dcacc |-> "atmel_sr5_dc6_4"]),
  Meta("AT25SF081 (Meta)", <<\h1f, \h85, \h01>>, 1024, S4_32_64, NV50, 70, [qe |-> "SR2_BIT1_WR_SR1",
      r |-> X2 \cup X4, wp |-> "wpr_3bp_tb_sec_cmp", fix |-> "at25sf081"]),
  NoSfdp("AT25SF081", <<\h1f, \h85, \h01>>, 1024, S4_32_64, NV50, 70, [qe |-> "SR2_BIT1_WR_SR1", r |-> X2 \cup X4,
      wp |-> "wpr_3bp_tb_sec_cmp"]),
  Sfdp("AT25SF081B", <<\h1f, \h85, \h01>>, 1024, 85, [wp |-> "wpr_3bp_tb_sec_cmp", wpacc |-> "srcr_comb"]),
  NoSfdp("AT26DF161A", <<\h1f, \h46, \h01, \h00>>, 2048, S4_32_64, NV, 70, Plain),
  NoSfdp("AT25DF161", <<\h1f, \h46, \h02, \h00>>, 2048, S4_32_64, NV, 85, [r |-> {"1_1_2"}, p |-> {"1_1_2"}]),
  NoSfdp("AT25DL161", <<\h1f, \h46, \h03, \h01, \h00>>, 2048, S4_32_64, NV, 85, [r |-> {"1_1_2"}, p |-> {"1_1_2"},
      dual |-> 66]),
  Entry("AT25FF161A", <<\h1f, \h46, \h08, \h01>>, 2048, {"PP_DUAL_INPUT"}, {}, 104, [
      wp |-> "wpr_3bp_tb_sec_cmp", wpacc |-> "srcr_comb", dc |-> "at25ff161a", dcacc |-> "atmel_sr5_dc6_4"]),
  Entry("AT25XE161D", <<\h1f, \h46, \h0c, \h01>>, 2048, {"PP_DUAL_INPUT"}, {}, 104, [
      wp |-> "wpr_3bp_tb_sec_cmp", wpacc |-> "srcr_comb", dc |-> "at25ff161a", dcacc |-> "atmel_sr5_dc6_4"]),
  NoSfdp("AT25DQ161", <<\h1f, \h86, \h00, \h01, \h00>>, 2048, S4_32_64, NV, 85, [qe |-> "SR2_BIT7",
      r |-> {"1_1_2", "1_1_4"}, p |-> {"1_1_2", "1_1_4"}]),
  Meta("AT25SF161 (Meta)", <<\h1f, \h86, \h01>>, 2048, S4_32_64, NV50, 85, [qe |-> "SR2_BIT1_WR_SR1",
      r |-> X2 \cup X4, wp |-> "wpr_3bp_tb_sec_cmp", fix |-> "at25sf161"]),
  NoSfdp("AT25SF161", <<\h1f, \h86, \h01>>, 2048, S4_32_64, NV50, 85, [qe |-> "SR2_BIT1_WR_SR1", r |-> X2 \cup X4,
      wp |-> "wpr_3bp_tb_sec_cmp"]),
  Sfdp("AT25SF161B", <<\h1f, \h86, \h01>>, 2048, 85, [wp |-> "wpr_3bp_tb_sec_cmp", wpacc |-> "srcr_comb"]),
  NoSfdp("AT25DF321", <<\h1f, \h47, \h00, \h00>>, 4096, S4_32_64, NV, 66, [alias |-> {"AT26DF321"}]) >>

atmel_parts_4 == <<
  NoSfdp("AT25DF321A", <<\h1f, \h47, \h01, \h00>>, 4096, S4_32_64, NV, 85, [r |-> {"1_1_2"}, p |-> {"1_1_2"}]),
  Entry("AT25FF321A", <<\h1f, \h47, \h08, \h01>>, 4096, {"PP_DUAL_INPUT"}, {}, 104, [
      wp |-> "wpr_3bp_tb_sec_cmp", wpacc |-> "srcr_comb", dc |-> "at25ff321a", dcacc |-> "atmel_sr5_dc6_4"]),
  Entry("AT25XE321D", <<\h1f, \h47, \h0c, \h01>>, 4096, {"PP_DUAL_INPUT"}, {}, 104, [
      wp |-> "wpr_3bp_tb_sec_cmp", wpacc |-> "srcr_comb", dc |-> "at25ff321a", dcacc |-> "atmel_sr5_dc6_4"]),
  Sfdp("AT25QL321", <<\h1f, \h42, \h16>>, 4096, 104, [alias |-> {"AT25SL321"}, dc |-> "at25ql321", srp |-> TRUE]),
  NoSfdp("AT25DQ321", <<\h1f, \h87, \h00, \h01, \h00>>, 4096, S4_32_64, NV, 85, [qe |-> "SR2_BIT7",
      r |-> {"1_1_2", "1_1_4"}, p |-> {"1_1_2", "1_1_4"}, quad |-> 66]),
  Meta("AT25SF321 (Meta)", <<\h1f, \h87, \h01>>, 4096, S4_32_64, NV50, 85, [qe |-> "SR2_BIT1_WR_SR1",
      r |-> X2 \cup X4, wp |-> "wpr_3bp_tb_sec_cmp", fix |-> "at25sf321"]),
  NoSfdp("AT25SF321", <<\h1f, \h87, \h01>>, 4096, S4_32_64, NV50, 85, [qe |-> "SR2_BIT1_WR_SR1", r |-> X2 \cup X4,
      wp |-> "wpr_3bp_tb_sec_cmp"]),
  Sfdp("AT25SF321B", <<\h1f, \h87, \h01>>, 4096, 85, [wp |-> "wpr_3bp_tb_sec_cmp", wpacc |-> "srcr_comb"]),
  NoSfdp("AT25DF641", <<\h1f, \h48, \h00, \h00>>, 8192, S4_32_64, NV, 75, [r |-> {"1_1_2"}, p |-> {"1_1_2"},
      dual |-> 55]),
  NoSfdp("AT25DF641A", <<\h1f, \h48, \h00, \h01, \h00>>, 8192, S4_32_64, NV, 85, [r |-> {"1_1_2"}, p |-> {"1_1_2"},
      dual |-> 65]),
  Sfdp("AT25QF641B", <<\h1f, \h88, \h01>>, 8192, 104, [quad |-> 85,
      wp |-> "wpr_3bp_tb_sec_cmp_ratio", wpacc |-> "srcr_comb"]),
  Sfdp("AT25QL641", <<\h1f, \h43, \h17>>, 8192, 104, [alias |-> {"AT25SL641"}, dual |-> 133,
      wp |-> "wpr_3bp_tb_sec_cmp_ratio", dc |-> "at25ql641", srp |-> TRUE]),
  Sfdp("AT25SF641", <<\h1f, \h32, \h17>>, 8192, 104, [wp |-> "wpr_3bp_tb_sec_cmp_ratio", dc |-> "at25ql321",
      srp |-> TRUE]),
  Sfdp("AT25SF641B", <<\h1f, \h88, \h01>>, 8192, 104, [wp |-> "wpr_3bp_tb_sec_cmp_ratio", wpacc |-> "srcr_comb"]) >>

atmel_parts_5 == <<
  NoSfdp("AT25QF128A", <<\h1f, \h89, \h01>>, 16384, S4_32_64, NV50, 108, [alias |-> {"AT25SF128A"},
      qe |-> "SR2_BIT1", r |-> X2 \cup X4, p |-> {"1_1_4"},
      wp |-> "wpr_3bp_tb_sec_cmp_ratio", wpacc |-> "srcr_comb"]),
  Sfdp("AT25QL128A", <<\h1f, \h42, \h18>>, 16384, 104, [alias |-> {"AT25SL128A"}, dual |-> 133,
      wp |-> "wpr_3bp_tb_sec_cmp_ratio", dc |-> "at25ql641", srp |-> TRUE]) >>

atmel_parts ==
  atmel_parts_1 \o atmel_parts_2 \o atmel_parts_3 \o atmel_parts_4 \o 
    atmel_parts_5

esmt_parts_1 == <<
  NoSfdp("F25L05PA", <<\h8c, \h30, \h10>>, 64, S4_64, NV, 50, [r |-> {"1_1_2"}, wp |-> "wpr_3bp_tb"]),
  NoSfdp("F25L01PA", <<\h8c, \h30, \h11>>, 128, S4_64, NV, 50, [r |-> {"1_1_2"}, wp |-> "wpr_3bp_tb"]),
  NoSfdp("F25L02PA", <<\h8c, \h30, \h12>>, 256, S4_64, NV, 50, [r |-> {"1_1_2"}, wp |-> "wpr_3bp_tb"]),
  NoSfdp("F25L04UA", <<\h8c, \h8c, \h8c>>, 512, S4, V, 50, Plain),
  NoSfdp("F25L004A", <<\h8c, \h20, \h13>>, 512, S4_64, V, 50, [alias |-> {"F25S004A"}]),
  NoSfdp("F25L04PA", <<\h8c, \h30, \h13>>, 512, S4_64, NV, 50, [alias |-> {"F25S04PA"}, r |-> {"1_1_2"},
      wp |-> "wpr_3bp_tb"]),
  NoSfdp("F25L008A", <<\h8c, \h20, \h14>>, 1024, S4_64, V, 50, Plain),
  NoSfdp("F25L008A(Bottom)", <<\h8c, \h21, \h14>>, 1024, S4_64, V, 50, Plain),
  NoSfdp("F25L08PA", <<\h8c, \h20, \h14>>, 1024, S4_64, V, 50, [r |-> {"1_1_2"}]),
  NoSfdp("F25L08QA", <<\h8c, \h40, \h14>>, 1024, S4_32_64, NV, 50, [qe |-> "SR1_BIT6", r |-> X2 \cup X4,
      p |-> {"1_1_4"}, wp |-> "wpr_3bp_tb"]),
  NoSfdp("F25D08QA", <<\h8c, \h25, \h34>>, 1024, S4_32_64, NV, 104, [qe |-> "SR1_BIT6", qpi |-> "35H_F5H",
      r |-> X2 \cup QPI, p |-> QPI \cup {"1_1_2"}, quad |-> 84, wp |-> "wpr_3bp_tb"]),
  NoSfdp("F25L016A", <<\h8c, \h20, \h15>>, 2048, S4_64, V, 50, Plain),
  Entry("F25L016A/F25L16PA", <<\h8c, \h21, \h15>>, 2048, {"META", "NO_OP", "NO_SFDP"}, {}, 0, Plain),
  NoSfdp("F25L016A(Bottom)", <<\h8c, \h21, \h15>>, 2048, S4_64, V, 50, Plain),
  NoSfdp("F25L16PA", <<\h8c, \h21, \h15>>, 2048, S4_32_64, NV, 50, [r |-> {"1_1_2"}, wp |-> "wpr_3bp_tb"]),
  NoSfdp("F25L16QA", <<\h8c, \h40, \h15>>, 2048, S4_32_64, NV, 50, [qe |-> "SR1_BIT6", r |-> X2 \cup X4,
      p |-> {"1_1_4"}, wp |-> "wpr_3bp_tb"]) >>

esmt_parts_2 == <<
  NoSfdp("F25L32PA", <<\h8c, \h20, \h16>>, 4096, S4_64, V, 50, [r |-> X2]),
  NoSfdp("F25L32QA", <<\h8c, \h41, \h16>>, 4096, S4_32_64, NV, 50, [qe |-> "SR1_BIT6", r |-> X2 \cup X4,
      p |-> {"1_1_4"}, wp |-> "wpr_3bp_tb"]),
  NoSfdp("F25L64QA", <<\h8c, \h41, \h17>>, 8192, S4_32_64, NV, 50, [qe |-> "SR1_BIT6", r |-> X2 \cup X4,
      p |-> {"1_1_4"}, wp |-> "wpr_3bp_tb"]),
  NoSfdp("F25D64QA", <<\h8c, \h25, \h37>>, 8192, S4_32_64, NV, 104, [qe |-> "SR1_BIT6", qpi |-> "35H_F5H",
      r |-> {"1_2_2", "1_4_4", "4_4_4"}, p |-> {"1_4_4", "4_4_4"}, quad |-> 84, wp |-> "wpr_3bp_tb"]) >>

esmt_parts ==
  esmt_parts_1 \o esmt_parts_2

intel_parts == <<
  NoSfdp("QB25F160S33B", <<\h89, \h89, \h11>>, 2048, S64, {}, 104, [alias |-> {"QH25F160S33B"}]),
  NoSfdp("QB25F320S33B", <<\h89, \h89, \h12>>, 4096, S64, {}, 104, [alias |-> {"QH25F320S33B"}]),
  NoSfdp("QB25F640S33B", <<\h89, \h89, \h13>>, 8192, S64, {}, 104, [alias |-> {"QH25F640S33B"}]),
  NoSfdp("QB25F160S33T", <<\h89, \h89, \h15>>, 2048, S64, {}, 104, [alias |-> {"QH25F160S33T"}]),
  NoSfdp("QB25F320S33T", <<\h89, \h89, \h16>>, 4096, S64, {}, 104, [alias |-> {"QH25F320S33T"}]),
  NoSfdp("QB25F640S33T", <<\h89, \h89, \h17>>, 8192, S64, {}, 104, [alias |-> {"QH25F640S33T"}]) >>

sst_parts_1 == <<
  NoSfdp("SST25VF512", NoId, 64, S4_32, V50, 20, [read3 |-> sst25vf512_read_opcodes]),
  NoSfdp("SST25VF512A", NoId, 64, S4_32, V50, 33, Plain),
  NoSfdp("SST25WF512", <<\hbf, \h25, \h01>>, 64, S4_32, V, 40, Plain),
  NoSfdp("SST25VF010A", NoId, 128, S4_32, V50, 33, Plain),
  NoSfdp("SST25WF010", <<\hbf, \h25, \h02>>, 128, S4_32, V, 40, Plain),
  NoSfdp("SST25LF020A", NoId, 256, S4_32, V50, 33, Plain),
  NoSfdp("SST25PF020B", <<\hbf, \h25, \h8c>>, 256, S4_32_64, V, 50, Plain),
  NoSfdp("SST25VF020B", <<\hbf, \h25, \h8c>>, 256, S4_32_64, V, 80, Plain),
  NoSfdp("SST25WF020", <<\hbf, \h25, \h03>>, 256, S4_32_64, V, 40, Plain),
  NoSfdp("SST25WF020A", <<\h62, \h16, \h12>>, 256, S4_64, V, 40, Plain),
  Sfdp("SST26VF020A", <<\hbf, \h26, \h12>>, 256, 80, Plain),
  NoSfdp("SST25PF040C", <<\h62, \h06, \h13>>, 512, S4_64, V, 40, [r |-> X2]),
  NoSfdp("SST25VF040B", <<\hbf, \h25, \h8d>>, 512, S4_32_64, V, 50, Plain),
  NoSfdp("SST25WF040", <<\hbf, \h25, \h04>>, 512, S4_32_64, V, 40, Plain),
  NoSfdp("SST25WF040B", <<\h62, \h16, \h13>>, 512, S4_64, V, 40, [r |-> X2]),
  Sfdp("SST26VF040A", <<\hbf, \h26, \h14>>, 512, 80, Plain),
  Sfdp("SST26WF040B", <<\hbf, \h26, \h54>>, 512, 104, [dual |-> 80]),
  NoSfdp("SST25VF080B", <<\hbf, \h25, \h84>>, 1024, S4_32_64, V, 50, Plain),
  NoSfdp("SST25WF080", <<\hbf, \h25, \h05>>, 1024, S4_32_64, V, 75, Plain) >>

sst_parts_2 == <<
  NoSfdp("SST25WF080B", <<\h62, \h16, \h14>>, 1024, S4_64, V, 40, [r |-> X2]),
  Sfdp("SST26VF080A", <<\hbf, \h26, \h18>>, 1024, 80, Plain),
  Sfdp("SST26WF080B", <<\hbf, \h26, \h58>>, 1024, 104, [dual |-> 80]),
  NoSfdp("SST25VF016B", <<\hbf, \h25, \h41>>, 2048, S4_32_64, V, 50, Plain),
  NoSfdp("SST26VF016", <<\hbf, \h26, \h01>>, 2048, S4, {}, 80, [qe |-> "DONT_CARE", qpi |-> "38H_FFH",
      r |-> {"4_4_4"}, p |-> {"4_4_4"}]),
  Sfdp("SST26VF016B", <<\hbf, \h26, \h41>>, 2048, 80, Plain),
  Sfdp("SST26WF016B", <<\hbf, \h26, \h51>>, 2048, 104, [dual |-> 80]),
  NoSfdp("SST25VF032B", <<\hbf, \h25, \h4a>>, 4096, S4_32_64, V, 66, Plain),
  NoSfdp("SST26VF032", <<\hbf, \h26, \h02>>, 4096, S4, {}, 80, [qe |-> "DONT_CARE", qpi |-> "38H_FFH",
      r |-> {"4_4_4"}, p |-> {"4_4_4"}]),
  Sfdp("SST26VF032B", <<\hbf, \h26, \h42>>, 4096, 80, Plain),
  NoSfdp("SST26WF032", <<\hbf, \h26, \h22>>, 4096, S4, V, 80, Plain),
  NoSfdp("SST25VF064C", <<\hbf, \h25, \h4b>>, 8192, S4_32_64, V, 80, [r |-> X2, pp3 |-> sst25vf064c_pp_opcodes,
      dual |-> 50]),
  Sfdp("SST26VF064B", <<\hbf, \h26, \h43>>, 8192, 80, Plain),
  Sfdp("SST26WF064C", <<\hbf, \h26, \h53>>, 8192, 104, [dual |-> 80]) >>

sst_parts ==
  sst_parts_1 \o sst_parts_2
=============================================================================
