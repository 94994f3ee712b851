SPECIFICATION Spec
CONSTANTS
    Membros = {h, d1}
    Cabecalho = h
    Workers = {w1, w2}
    Nenhum = nenhum
    Financeiro = TRUE
    Janela = 1
    Versoes = {1}
    Vazias = {}
    PaiLento = TRUE
    MaxPedidos = 2
    MaxPosts = 0
    MaxQuedas = 0
    MaxErros = 0
    MaxReentregas = 0
    MaxCancelamentos = 1
    MaxMudancas = 0
    Gastos <- Nada
SYMMETRY Simetria
INVARIANT ReusoJustificado
CHECK_DEADLOCK FALSE
